---- MODULE Spec2Model ----
(***************************************************************************)
(* Flow editor: presentation graph (nodes with per-function routing,       *)
(* synthetic decision nodes, derived edges), the adapters to and from the  *)
(* flow document, the graph validator and the undo history.                *)
(*                                                                         *)
(* Strings that the program composes or parses (node ids, labels) are      *)
(* kept as sequences of tokens: the id "node_copy_2" is <<"node", "copy",  *)
(* "2">>.  An undefined id, position or decision is the empty sequence.    *)
(***************************************************************************)
EXTENDS Integers, Sequences, FiniteSets, TLC

VARIABLES
    nodes,          \* useNodesState: the presentation nodes, in array order
    edges,          \* useEdgesState: the presentation edges, in array order
    undoManager,    \* undoManagerRef.current
    skipUndoPush,   \* skipUndoPushRef.current
    nodesDirty,     \* the nodes value changed since the effects last ran
    edgesDirty,     \* the edges value changed since the effects last ran
    pushTimer,      \* the 200 ms timer of the undo push effect is armed
    edits,          \* number of user events so far
    last,           \* what the last step was, with the values it saw
    doc,            \* adapter / validator runs: the input document
    errs,           \* validator runs: customGraphChecks(doc)
    rf,             \* adapter runs: flowJsonToReactFlow(doc)
    out,            \* adapter runs: reactFlowToFlowJson(rf.nodes, edgesIn)
    back,           \* adapter runs: flowJsonToReactFlow(out)
    pushes,         \* undo runs: the snapshots handed to the manager
    result,         \* undo runs: what the last undo() / redo() returned
    pc,             \* adapter / validator / undo runs: position of the run
    load,           \* route entry: pathname, hasLoadedFromApi, fetches, timer
    toolbar,        \* toolbar runs: environment, downloads and requests sent
    inspector,      \* inspector runs: the function item and what it renders
    props,          \* canUndo / canRedo as the last render handed them on
    run             \* runs of one component or function: inputs and result

vars == <<nodes, edges, undoManager, skipUndoPush, nodesDirty, edgesDirty,
          pushTimer, edits, last, doc, errs, rf, out, back, pushes, result, pc,
          load, toolbar, inspector, props, run>>

\* the state of the route entry, of the toolbar and of the inspector, the
\* rendered undo flags and the state of a component run
ShellVars == <<load, toolbar, inspector, props, run>>

-----------------------------------------------------------------------------
(* Bounds of the model *)

MaxNodes == 2
MaxFunctions == 2
MaxEdits == 5
MaxPushes == 4

-----------------------------------------------------------------------------
(* Generic helpers on sequences *)

Undef == <<>>
UndefStr == "undefined"
EmptyId == <<"">>

Range(s) == {s[i] : i \in DOMAIN s}

RECURSIVE Flatten(_)
Flatten(ss) == IF ss = <<>> THEN <<>> ELSE Head(ss) \o Flatten(Tail(ss))

\* Array.prototype.findIndex, 0 when nothing is found
FindIndex(s, Test(_)) ==
    IF \E i \in DOMAIN s : Test(s[i])
    THEN CHOOSE i \in DOMAIN s : Test(s[i]) /\ \A j \in 1..(i - 1) : ~Test(s[j])
    ELSE 0

Count(s, Test(_)) == Cardinality({i \in DOMAIN s : Test(s[i])})

-----------------------------------------------------------------------------
(* Data shapes *)

Function(name, next, decision) ==
    [name |-> name, next_node_id |-> next, decision |-> decision]

Decision(action, conditions, default, position) ==
    [action |-> action, conditions |-> conditions,
     default_next_node_id |-> default, decision_node_position |-> position]

Condition(operator, value, next) ==
    [operator |-> operator, value |-> value, next_node_id |-> next]

HasDecision(func) == func.decision # Undef
DecisionOf(func) == func.decision[1]

\* data of a node; the four decision fields are undefined on a regular node
NodeData(label, functions) ==
    [label |-> label, functions |-> functions, action |-> UndefStr,
     conditionCount |-> -1, sourceNodeId |-> Undef, functionName |-> UndefStr]

Node(id, type, position, data) ==
    [id |-> id, type |-> type, position |-> position, data |-> data]

Edge(source, target, label) ==
    [source |-> source, target |-> target, label |-> label]

IsDecisionNode(n) == n.type = "decision"
RegularNodes(nds) == SelectSeq(nds, LAMBDA n : ~IsDecisionNode(n))
NodeIds(nds) == [i \in DOMAIN nds |-> nds[i].id]
HasNode(nds, id) == \E i \in DOMAIN nds : nds[i].id = id
\* Array.prototype.find on the id: the first node with that id
FindNode(nds, id) == nds[FindIndex(nds, LAMBDA n : n.id = id)]

-----------------------------------------------------------------------------
(* Synthetic decision nodes *)

\* the composite id of the synthetic node of (sourceNodeId, functionName)
generateDecisionNodeId(nodeId, functionName) ==
    <<"decision">> \o nodeId \o <<functionName>>

parseDecisionNodeId(id) ==
    IF Len(id) >= 2 /\ id[1] = "decision"
    THEN [sourceNodeId |-> SubSeq(id, 2, Len(id) - 1), functionName |-> id[Len(id)]]
    ELSE Undef

\* the projection of a function's decision block
getDecisionNodeData(nodeId, nodePosition, func) ==
    [id |-> generateDecisionNodeId(nodeId, func.name),
     position |-> IF DecisionOf(func).decision_node_position # Undef
                  THEN DecisionOf(func).decision_node_position
                  ELSE <<nodePosition[1] + 200, nodePosition[2]>>,
     data |-> [label |-> <<func.name>>, functions |-> <<>>,
               action |-> DecisionOf(func).action,
               conditionCount |-> Len(DecisionOf(func).conditions),
               sourceNodeId |-> nodeId, functionName |-> func.name]]

\* (node, function) pairs bearing a decision, in node order then function order
DecisionPairs(nds) ==
    Flatten([i \in DOMAIN RegularNodes(nds) |->
        LET node == RegularNodes(nds)[i]
            fs == SelectSeq(node.data.functions, HasDecision)
        IN  [j \in DOMAIN fs |-> [node |-> node, func |-> fs[j]]]])

PairId(p) == generateDecisionNodeId(p.node.id, p.func.name)
PairData(p) == getDecisionNodeData(p.node.id, p.node.position, p.func)

validDecisionIds(nds) == {PairId(p) : p \in Range(DecisionPairs(nds))}

ProjectionDiffers(existingNode, newData) ==
    \/ existingNode.data.label # newData.label
    \/ existingNode.data.action # newData.action
    \/ existingNode.data.conditionCount # newData.conditionCount
    \/ existingNode.data.sourceNodeId # newData.sourceNodeId
    \/ existingNode.data.functionName # newData.functionName

decisionNodesToCreate(nds) ==
    LET ps == SelectSeq(DecisionPairs(nds), LAMBDA p : ~HasNode(nds, PairId(p)))
    IN  [k \in DOMAIN ps |->
            Node(PairData(ps[k]).id, "decision", PairData(ps[k]).position,
                 PairData(ps[k]).data)]

\* the pairs whose existing node shows another projection, in scan order
UpdatingPairs(nds) ==
    SelectSeq(DecisionPairs(nds),
        LAMBDA p : /\ HasNode(nds, PairId(p))
                   /\ ProjectionDiffers(FindNode(nds, PairId(p)), PairData(p).data))

\* the update that also moves the node to the projected position
decisionNodesToUpdateMoved(nds, id) ==
    LET ps == SelectSeq(UpdatingPairs(nds), LAMBDA p : PairId(p) = id)
    IN  [FindNode(nds, id) EXCEPT !.data = PairData(ps[Len(ps)]).data,
                                   !.position = PairData(ps[Len(ps)]).position]

\* Map.set in scan order: the last pair with the id wins
decisionNodesToUpdate(nds, id) ==
    LET ps == SelectSeq(UpdatingPairs(nds), LAMBDA p : PairId(p) = id)
    IN  [FindNode(nds, id) EXCEPT !.data = PairData(ps[Len(ps)]).data]

hasOrphanedNodes(nds) ==
    \E i \in DOMAIN nds :
        IsDecisionNode(nds[i]) /\ nds[i].id \notin validDecisionIds(nds)

\* the condition under which the effect calls setNodes
NeedsReconcile(nds) ==
    \/ Len(decisionNodesToCreate(nds)) > 0
    \/ Len(UpdatingPairs(nds)) > 0
    \/ hasOrphanedNodes(nds)

RECURSIVE AddNew(_, _)
AddNew(filtered, toCreate) ==
    IF toCreate = <<>> THEN filtered
    ELSE AddNew(IF HasNode(filtered, Head(toCreate).id)
                THEN filtered ELSE Append(filtered, Head(toCreate)),
                Tail(toCreate))

\* the updater the effect hands to setNodes; the scan results come from the
\* nodes of the render (scanned), the updater runs on the current state (nds)
ReconcileUpdater(scanned, nds) ==
    LET valid == validDecisionIds(scanned)
        updIds == {PairId(p) : p \in Range(UpdatingPairs(scanned))}
        filtered == SelectSeq(nds, LAMBDA n : IsDecisionNode(n) => n.id \in valid)
        updated == [i \in DOMAIN filtered |->
                       IF IsDecisionNode(filtered[i]) /\ filtered[i].id \in updIds
                       THEN decisionNodesToUpdate(scanned, filtered[i].id)
                       ELSE filtered[i]]
    IN  AddNew(updated, decisionNodesToCreate(scanned))

\* one run of the useDecisionNodes effect
useDecisionNodes(nds) ==
    IF NeedsReconcile(nds) THEN ReconcileUpdater(nds, nds) ELSE nds

-----------------------------------------------------------------------------
(* Edge derivation *)

IsSet(id) == id # Undef /\ id # EmptyId

FunctionEdges(node, func) ==
    IF ~HasDecision(func)
    THEN IF IsSet(func.next_node_id)
         THEN <<Edge(node.id, func.next_node_id, func.name)>>
         ELSE <<>>
    ELSE LET d == DecisionOf(func)
             decisionNodeId == generateDecisionNodeId(node.id, func.name)
         IN  <<Edge(node.id, decisionNodeId, "")>>
             \o [k \in DOMAIN d.conditions |->
                    Edge(decisionNodeId, d.conditions[k].next_node_id,
                         d.conditions[k].operator \o " " \o d.conditions[k].value)]
             \o <<Edge(decisionNodeId, d.default_next_node_id, "default")>>

\* edges of every non-synthetic node, by node, then function, then condition
deriveEdgesFromNodes(nds) ==
    Flatten([i \in DOMAIN RegularNodes(nds) |->
        LET node == RegularNodes(nds)[i]
        IN  Flatten([j \in DOMAIN node.data.functions |->
                FunctionEdges(node, node.data.functions[j])])])

\* the previous array is kept when the derived one is structurally equal
edgesChanged(currentEdges, derivedEdges) ==
    [changed |-> currentEdges # derivedEdges,
     newEdges |-> IF currentEdges = derivedEdges THEN currentEdges ELSE derivedEdges]

-----------------------------------------------------------------------------
(* Adapters between the flow document and the presentation graph *)

DefaultMeta == [name |-> "Untitled"]

FlowJson(meta, docNodes, docEdges) ==
    [meta |-> meta, nodes |-> docNodes, edges |-> docEdges]

\* document -> presentation: the nodes 1:1, one synthesis pass, derived edges
flowJsonToReactFlow(json) ==
    LET flowNodes == useDecisionNodes(json.nodes)
    IN  [nodes |-> flowNodes, edges |-> deriveEdgesFromNodes(flowNodes)]

\* presentation -> document: synthetic nodes stripped, function data verbatim,
\* edges recomputed from the routing of the nodes (the edges passed in are a
\* cache and are not read); the presentation graph carries no meta
reactFlowToFlowJson(nds, eds) ==
    LET regular == RegularNodes(nds)
        synthetic == {nds[i].id : i \in {k \in DOMAIN nds : IsDecisionNode(nds[k])}}
                        \cup validDecisionIds(nds)
    IN  FlowJson(DefaultMeta, regular,
                 SelectSeq(deriveEdgesFromNodes(regular),
                           LAMBDA e : e.source \notin synthetic
                                      /\ e.target \notin synthetic))

-----------------------------------------------------------------------------
(* Graph-semantic validation *)

FunctionRefs(func) ==
    IF ~HasDecision(func)
    THEN IF func.next_node_id # Undef THEN <<func.next_node_id>> ELSE <<>>
    ELSE [k \in DOMAIN DecisionOf(func).conditions |->
             DecisionOf(func).conditions[k].next_node_id]
         \o <<DecisionOf(func).default_next_node_id>>

NodeRefs(node) ==
    Flatten([j \in DOMAIN node.data.functions |-> FunctionRefs(node.data.functions[j])])

\* a duplicate scan whose inner loop misses the first node
DuplicateErrorsSkippingFirst(json) ==
    LET ids == NodeIds(json.nodes)
        dupIdx == SelectSeq([i \in DOMAIN ids |-> i],
                      LAMBDA i : \E j \in 2..(i - 1) : ids[j] = ids[i])
    IN  [k \in DOMAIN dupIdx |->
            [message |-> "Duplicate node id", id |-> ids[dupIdx[k]]]]

\* (a) one error for every node whose id an earlier node has
DuplicateErrors(json) ==
    LET ids == NodeIds(json.nodes)
        dupIdx == SelectSeq([i \in DOMAIN ids |-> i],
                      LAMBDA i : \E j \in 1..(i - 1) : ids[j] = ids[i])
    IN  [k \in DOMAIN dupIdx |->
            [message |-> "Duplicate node id", id |-> ids[dupIdx[k]]]]

\* (b) one error for every edge end and every function reference that names
\* no node
ReferenceErrors(json) ==
    LET ids == Range(NodeIds(json.nodes))
        ends == Flatten([i \in DOMAIN json.edges |->
                          <<json.edges[i].source, json.edges[i].target>>])
        refs == Flatten([i \in DOMAIN json.nodes |-> NodeRefs(json.nodes[i])])
        badEnds == SelectSeq(ends, LAMBDA id : id \notin ids)
        badRefs == SelectSeq(refs, LAMBDA id : id \notin ids)
    IN  [k \in DOMAIN badEnds |->
            [message |-> "Edge references unknown node", id |-> badEnds[k]]]
        \o [k \in DOMAIN badRefs |->
               [message |-> "Function references unknown node", id |-> badRefs[k]]]

customGraphChecks(json) == DuplicateErrors(json) \o ReferenceErrors(json)

-----------------------------------------------------------------------------
(* Undo history *)

HistoryLimit == 3

\* new UndoManager(initial): the stack holds the current snapshot on top
NewUndoManager(initial) == [stack |-> <<initial>>, redo |-> <<>>]

Top(um) == um.stack[Len(um.stack)]

\* appends only a snapshot that differs from the top; the stack is bounded,
\* the oldest entry is dropped; a push ends the redo history
Push(um, snapshot) ==
    IF snapshot = Top(um) THEN um
    ELSE LET s == Append(um.stack, snapshot)
         IN  [stack |-> IF Len(s) > HistoryLimit THEN Tail(s) ELSE s,
              redo |-> <<>>]

canUndo(um) == Len(um.stack) > 1
canRedo(um) == Len(um.redo) > 0

\* the manager after undo(); the snapshot returned is its new top
Undo(um) ==
    IF canUndo(um)
    THEN [stack |-> SubSeq(um.stack, 1, Len(um.stack) - 1),
          redo |-> Append(um.redo, Top(um))]
    ELSE um

\* a redo that leaves the entry it restored on the redo stack
RedoKeepingEntry(um) ==
    IF Len(um.redo) > 0
    THEN [stack |-> Append(um.stack, um.redo[Len(um.redo)]), redo |-> um.redo]
    ELSE um

Redo(um) ==
    IF canRedo(um)
    THEN [stack |-> Append(um.stack, um.redo[Len(um.redo)]),
          redo |-> SubSeq(um.redo, 1, Len(um.redo) - 1)]
    ELSE um

\* what undo() / redo() return: the snapshot to restore, or null
Null == <<>>
UndoResult(um) == IF canUndo(um) THEN <<Top(Undo(um))>> ELSE Null
RedoResult(um) == IF canRedo(um) THEN <<Top(Redo(um))>> ELSE Null

-----------------------------------------------------------------------------
(* Node ids and labels *)

TemplateLabel(type) ==
    CASE type = "initial" -> <<"Initial">>
      [] type = "node" -> <<"Node">>
      [] type = "end" -> <<"End">>
      [] OTHER -> <<type>>

Lower(token) ==
    CASE token = "Initial" -> "initial"
      [] token = "Node" -> "node"
      [] token = "End" -> "end"
      [] OTHER -> token

\* the fallback type stands when the data derives nothing else
deriveNodeType(data, fallback) == fallback

IsNumber(token) == \E k \in 0..(2 * MaxNodes + 2) : ToString(k) = token
NumberOf(token) == CHOOSE k \in 0..(2 * MaxNodes + 2) : ToString(k) = token

\* the slug of the label, with a counter when the slug is taken
generateNodeIdFromLabel(label, existingIds) ==
    LET slug == [i \in DOMAIN label |-> Lower(label[i])]
        free == {k \in 2..(Len(existingIds) + 2) :
                    slug \o <<ToString(k)>> \notin Range(existingIds)}
        counter == CHOOSE k \in free : \A j \in free : k <= j
    IN  IF slug \notin Range(existingIds) THEN slug ELSE slug \o <<ToString(counter)>>

IsCopyToken(token) == token \in {"copy", "Copy", "COPY"}

generateCopyLabel(originalLabel, existingLabels) ==
    LET baseLabel == IF originalLabel = <<>> THEN <<"Node">> ELSE originalLabel
        n == Len(baseLabel)
        baseName ==
            IF n >= 2 /\ IsCopyToken(baseLabel[n]) THEN SubSeq(baseLabel, 1, n - 1)
            ELSE IF n >= 3 /\ IsNumber(baseLabel[n]) /\ IsCopyToken(baseLabel[n - 1])
                 THEN SubSeq(baseLabel, 1, n - 2)
                 ELSE baseLabel
        b == Len(baseName)
        CopyNumber(label) ==
            IF Len(label) = b + 1 /\ SubSeq(label, 1, b) = baseName
               /\ IsCopyToken(label[b + 1])
            THEN 1
            ELSE IF Len(label) = b + 2 /\ SubSeq(label, 1, b) = baseName
                    /\ IsCopyToken(label[b + 1]) /\ IsNumber(label[b + 2])
                 THEN NumberOf(label[b + 2])
                 ELSE 0
        numbers == {CopyNumber(existingLabels[i]) : i \in DOMAIN existingLabels} \cup {0}
        maxCopyNumber == CHOOSE m \in numbers : \A k \in numbers : k <= m
    IN  IF maxCopyNumber = 0 THEN baseName \o <<"copy">>
        ELSE baseName \o <<"copy", ToString(maxCopyNumber + 1)>>

\* JSON.parse(JSON.stringify(...)) of a function: every field written and read
\* back; a field that is undefined is left out and reads as undefined
JsonCloneFunction(func) ==
    Function(func.name, func.next_node_id,
             IF HasDecision(func)
             THEN LET d == DecisionOf(func)
                  IN  <<Decision(d.action,
                                 [k \in DOMAIN d.conditions |->
                                     Condition(d.conditions[k].operator,
                                               d.conditions[k].value,
                                               d.conditions[k].next_node_id)],
                                 d.default_next_node_id, d.decision_node_position)>>
             ELSE Undef)

JsonClone(data) ==
    [data EXCEPT !.functions = [j \in DOMAIN @ |-> JsonCloneFunction(@[j])]]

\* the copy whose id is the slug of its label, whatever ids exist
duplicateNodeSlugOnly(node, allNodes) ==
    LET existingLabels ==
            SelectSeq([i \in DOMAIN allNodes |-> allNodes[i].data.label],
                      LAMBDA l : l # <<>>)
        originalLabel == IF node.data.label = <<>> THEN <<"Node">> ELSE node.data.label
        newLabel == generateCopyLabel(originalLabel, existingLabels)
    IN  [node EXCEPT !.id = generateNodeIdFromLabel(newLabel, <<>>),
                     !.position = <<node.position[1] + 100, node.position[2] + 20>>,
                     !.data = [JsonClone(node.data) EXCEPT !.label = newLabel]]

duplicateNode(node, allNodes) ==
    LET existingLabels ==
            SelectSeq([i \in DOMAIN allNodes |-> allNodes[i].data.label],
                      LAMBDA l : l # <<>>)
        originalLabel == IF node.data.label = <<>> THEN <<"Node">> ELSE node.data.label
        newLabel == generateCopyLabel(originalLabel, existingLabels)
        newId == generateNodeIdFromLabel(newLabel, NodeIds(allNodes))
    IN  [node EXCEPT !.id = newId,
                     !.position = <<node.position[1] + 100, node.position[2] + 20>>,
                     !.data = [JsonClone(node.data) EXCEPT !.label = newLabel]]

-----------------------------------------------------------------------------
(* Node updates *)

\* merges the updated functions into every node with that id
updateNodeData(nds, nodeId, functions) ==
    [i \in DOMAIN nds |->
        IF nds[i].id = nodeId THEN [nds[i] EXCEPT !.data.functions = functions]
        ELSE nds[i]]

\* nodes.find(...): the node in a one-element sequence, or undefined
Find(nds, id) == IF HasNode(nds, id) THEN <<FindNode(nds, id)>> ELSE Undef

canDeleteNode(nodeToDelete) ==
    nodeToDelete # Undef /\ nodeToDelete[1].type # "initial"

\* references to the deleted id are left dangling
deleteNode(nds, id) == SelectSeq(nds, LAMBDA n : n.id # id)

RenameRef(id, oldId, newId) == IF id = oldId THEN newId ELSE id

RenameInFunction(func, oldId, newId) ==
    [name |-> func.name,
     next_node_id |-> RenameRef(func.next_node_id, oldId, newId),
     decision |->
        IF HasDecision(func)
        THEN <<[DecisionOf(func) EXCEPT
                  !.default_next_node_id = RenameRef(@, oldId, newId),
                  !.conditions = [k \in DOMAIN @ |->
                      [@[k] EXCEPT !.next_node_id = RenameRef(@, oldId, newId)]]]>>
        ELSE Undef]

updateFunctionReferences(nds, oldId, newId) ==
    [i \in DOMAIN nds |->
        [nds[i] EXCEPT !.data.functions =
            [j \in DOMAIN @ |-> RenameInFunction(@[j], oldId, newId)]]]

-----------------------------------------------------------------------------
(* The editor shell: state after mount *)

InitialGraph ==
    [nodes |-> <<Node(generateNodeIdFromLabel(<<"Initial">>, <<>>), "initial",
                     <<100, 100>>, NodeData(<<"Initial">>, <<>>))>>,
     edges |-> <<>>]

Snapshot(nds, eds) == [nodes |-> nds, edges |-> eds]

NoStep == [op |-> "none"]

EditorInit ==
    /\ nodes = InitialGraph.nodes
    /\ edges = InitialGraph.edges
    /\ undoManager = NewUndoManager(Snapshot(InitialGraph.nodes, InitialGraph.edges))
    /\ skipUndoPush = FALSE
    /\ nodesDirty = FALSE
    /\ edgesDirty = FALSE
    /\ pushTimer = TRUE
    /\ edits = 0
    /\ last = NoStep
    /\ doc = Undef /\ errs = Undef /\ rf = Undef /\ out = Undef /\ back = Undef
    /\ pushes = Undef /\ result = Undef /\ pc = "editor"
    /\ load = Undef /\ toolbar = Undef /\ inspector = Undef
    /\ props = Undef /\ run = Undef

\* React has rendered and run every effect of the last state change
Quiescent == ~nodesDirty /\ ~edgesDirty

\* a user event is handled between renders; the model stops after MaxEdits
UserEvent == Quiescent /\ edits < MaxEdits

PureVars == <<doc, errs, rf, out, back, pushes, result, pc, ShellVars>>

\* a handler called setNodes and / or setEdges; newNodes and newEdges tell
\* whether React sees a new array and renders again
SetGraph(nds, eds, newNodes, newEdges, step) ==
    /\ nodes' = nds
    /\ edges' = eds
    /\ nodesDirty' = newNodes
    /\ edgesDirty' = newEdges
    /\ edits' = edits + 1
    /\ last' = step
    /\ UNCHANGED <<pushTimer, PureVars>>

\* setNodes with a freshly built array
SetNodes(nds, step) ==
    /\ SetGraph(nds, edges, TRUE, FALSE, step)
    /\ UNCHANGED <<undoManager, skipUndoPush>>

RegularIds == Range(NodeIds(RegularNodes(nodes)))

-----------------------------------------------------------------------------
(* Canvas events *)

DropPositions == {<<0, 0>>}

OnDrop(type, position) ==
    /\ UserEvent
    /\ Len(RegularNodes(nodes)) < MaxNodes
    /\ type = "initial" =>
          ~\E i \in DOMAIN nodes : deriveNodeType(nodes[i].data, nodes[i].type) = "initial"
    /\ LET label == TemplateLabel(type)
           id == generateNodeIdFromLabel(label, NodeIds(nodes))
           derivedType == deriveNodeType(NodeData(label, <<>>), type)
       IN  SetNodes(Append(nodes, Node(id, derivedType, position, NodeData(label, <<>>))),
                    [op |-> "drop", id |-> id, pre |-> nodes])

handleDuplicateNode(contextMenuNodeId) ==
    /\ UserEvent
    /\ Len(RegularNodes(nodes)) < MaxNodes
    /\ HasNode(nodes, contextMenuNodeId)
    /\ ~IsDecisionNode(FindNode(nodes, contextMenuNodeId))
    /\ LET duplicatedNode == duplicateNode(FindNode(nodes, contextMenuNodeId), nodes)
       IN  SetNodes(Append(nodes, duplicatedNode),
                    [op |-> "duplicate", id |-> duplicatedNode.id, pre |-> nodes])

handleDeleteNode(contextMenuNodeId) ==
    /\ UserEvent
    /\ canDeleteNode(Find(nodes, contextMenuNodeId))
    /\ SetNodes(deleteNode(nodes, contextMenuNodeId),
                [op |-> "delete", id |-> contextMenuNodeId, pre |-> nodes])

\* React Flow hands a removal of one edge to useEdgesState's onEdgesChange
onEdgesChange(index) ==
    /\ UserEvent
    /\ index \in DOMAIN edges
    /\ SetGraph(nodes, [i \in 1..(Len(edges) - 1) |->
                            IF i < index THEN edges[i] ELSE edges[i + 1]],
                FALSE, TRUE,
                [op |-> "edgesChange", pre |-> nodes])
    /\ UNCHANGED <<undoManager, skipUndoPush>>

-----------------------------------------------------------------------------
(* Inspector events on the selected node *)

RenameTargets == {<<"renamed">>}

\* the rename without its third step: the routing keeps naming the old id
onRenameNodeIdOnly(oldId, newId) ==
    /\ UserEvent
    /\ oldId # newId
    /\ LET renamed == [i \in DOMAIN nodes |->
                          IF nodes[i].id = oldId THEN [nodes[i] EXCEPT !.id = newId]
                          ELSE nodes[i]]
           eds == [i \in DOMAIN edges |->
                      [edges[i] EXCEPT !.source = RenameRef(@, oldId, newId),
                                       !.target = RenameRef(@, oldId, newId)]]
       IN  SetGraph(renamed, eds, TRUE, TRUE,
                    [op |-> "rename", id |-> oldId, to |-> newId, pre |-> nodes])
    /\ UNCHANGED <<undoManager, skipUndoPush>>

onRenameNode(oldId, newId) ==
    /\ UserEvent
    /\ oldId # newId
    /\ LET renamed == [i \in DOMAIN nodes |->
                          IF nodes[i].id = oldId THEN [nodes[i] EXCEPT !.id = newId]
                          ELSE nodes[i]]
           eds == [i \in DOMAIN edges |->
                      [edges[i] EXCEPT !.source = RenameRef(@, oldId, newId),
                                       !.target = RenameRef(@, oldId, newId)]]
       IN  SetGraph(updateFunctionReferences(renamed, oldId, newId), eds, TRUE, TRUE,
                    [op |-> "rename", id |-> oldId, to |-> newId, pre |-> nodes])
    /\ UNCHANGED <<undoManager, skipUndoPush>>

FunctionsOf(id) == FindNode(nodes, id).data.functions

\* FunctionsForm: the whole list is replaced through updateNodeData
ChangeFunctions(id, functions, step) ==
    SetNodes(updateNodeData(nodes, id, functions), step)

updateItem(id, index, func, op) ==
    ChangeFunctions(id, [FunctionsOf(id) EXCEPT ![index] = func],
                    [op |-> op, id |-> id, name |-> func.name, pre |-> nodes])

addItem(id) ==
    /\ UserEvent
    /\ Len(FunctionsOf(id)) < MaxFunctions
    /\ ChangeFunctions(id, Append(FunctionsOf(id), Function("", Undef, Undef)),
                       [op |-> "addItem", id |-> id, pre |-> nodes])

FunctionNames == {"f"}

handleNameBlur(id, index, formatted) ==
    /\ UserEvent
    /\ index \in DOMAIN FunctionsOf(id)
    /\ formatted # FunctionsOf(id)[index].name
    /\ updateItem(id, index, [FunctionsOf(id)[index] EXCEPT !.name = formatted], "name")

\* the Next Node select
onValueChange(id, index, v) ==
    /\ UserEvent
    /\ index \in DOMAIN FunctionsOf(id)
    /\ LET func == FunctionsOf(id)[index]
       IN  updateItem(id, index,
               IF HasDecision(func)
               THEN [func EXCEPT !.decision = <<[DecisionOf(func) EXCEPT
                                                   !.default_next_node_id = v]>>]
               ELSE [func EXCEPT !.next_node_id = v],
               "nextNode")

\* the Decision toggle on a function without a decision
createDecision(id, index) ==
    /\ UserEvent
    /\ index \in DOMAIN FunctionsOf(id)
    /\ ~HasDecision(FunctionsOf(id)[index])
    /\ LET func == FunctionsOf(id)[index]
       IN  updateItem(id, index,
               [func EXCEPT !.decision =
                   <<Decision("", <<>>,
                              IF IsSet(func.next_node_id) THEN func.next_node_id
                              ELSE EmptyId,
                              Undef)>>],
               "createDecision")

removeDecision(id, index) ==
    /\ UserEvent
    /\ index \in DOMAIN FunctionsOf(id)
    /\ HasDecision(FunctionsOf(id)[index])
    /\ updateItem(id, index, [FunctionsOf(id)[index] EXCEPT !.decision = Undef],
                  "removeDecision")

-----------------------------------------------------------------------------
(* Toolbar: undo and redo *)

\* the arrays of a snapshot are the arrays of the state it was taken from:
\* React renders again for the ones that differ from the current state
Restore(um, state) ==
    /\ undoManager' = um
    /\ skipUndoPush' = TRUE
    /\ SetGraph(state.nodes, state.edges, state.nodes # nodes, state.edges # edges,
                [op |-> "restore", pre |-> nodes, um |-> um])

onUndo ==
    /\ UserEvent
    /\ IF UndoResult(undoManager) # Null
       THEN Restore(Undo(undoManager), UndoResult(undoManager)[1])
       ELSE /\ edits' = edits + 1
            /\ UNCHANGED <<nodes, edges, undoManager, skipUndoPush, nodesDirty,
                           edgesDirty, pushTimer, last, PureVars>>

onRedo ==
    /\ UserEvent
    /\ IF RedoResult(undoManager) # Null
       THEN Restore(Redo(undoManager), RedoResult(undoManager)[1])
       ELSE /\ edits' = edits + 1
            /\ UNCHANGED <<nodes, edges, undoManager, skipUndoPush, nodesDirty,
                           edgesDirty, pushTimer, last, PureVars>>

-----------------------------------------------------------------------------
(* Effects *)

\* one render: the effects whose dependencies changed run on the rendered
\* values, then their state updates are applied
RunEffects ==
    /\ nodesDirty \/ edgesDirty
    /\ LET reconciled == IF nodesDirty THEN useDecisionNodes(nodes) ELSE nodes
           derived == IF nodesDirty
                      THEN edgesChanged(edges, deriveEdgesFromNodes(nodes)).newEdges
                      ELSE edges
       IN  /\ nodes' = reconciled
           /\ edges' = derived
           /\ nodesDirty' = (nodesDirty /\ NeedsReconcile(nodes))
           /\ edgesDirty' = (derived # edges)
    \* undo push effect: its cleanup clears the timer of the previous render
    /\ IF skipUndoPush
       THEN skipUndoPush' = FALSE /\ pushTimer' = FALSE
       ELSE skipUndoPush' = FALSE /\ pushTimer' = TRUE

Effects == RunEffects /\ UNCHANGED <<undoManager, edits, last, PureVars>>

\* the 200 ms timer fires once the renders have settled
PushTimeout ==
    /\ pushTimer
    /\ Quiescent
    /\ pushTimer' = FALSE
    /\ undoManager' = Push(undoManager, Snapshot(nodes, edges))
    /\ UNCHANGED <<nodes, edges, skipUndoPush, nodesDirty, edgesDirty, edits, last,
                   PureVars>>

EditorNext ==
    \/ \E type \in {"initial", "node", "end"}, position \in DropPositions :
          OnDrop(type, position)
    \/ \E id \in RegularIds : handleDuplicateNode(id)
    \/ \E id \in RegularIds : handleDeleteNode(id)
    \/ \E index \in 1..(3 * MaxNodes * MaxFunctions) : onEdgesChange(index)
    \/ \E oldId \in RegularIds, newId \in RegularIds \cup RenameTargets :
          onRenameNode(oldId, newId)
    \/ \E id \in RegularIds : addItem(id)
    \/ \E id \in RegularIds, index \in 1..MaxFunctions, name \in FunctionNames :
          handleNameBlur(id, index, name)
    \/ \E id \in RegularIds, index \in 1..MaxFunctions, v \in Range(NodeIds(nodes)) :
          onValueChange(id, index, v)
    \/ \E id \in RegularIds, index \in 1..MaxFunctions : createDecision(id, index)
    \/ \E id \in RegularIds, index \in 1..MaxFunctions : removeDecision(id, index)
    \/ onUndo
    \/ onRedo
    \/ Effects
    \/ PushTimeout

Spec == EditorInit /\ [][EditorNext]_vars

-----------------------------------------------------------------------------
(* Claims on the editor *)

HasDuplicateIds(nds) ==
    \E i, j \in DOMAIN nds : i # j /\ nds[i].id = nds[j].id

HasDuplicateNames(nds) ==
    \E i \in DOMAIN nds : \E j, k \in DOMAIN nds[i].data.functions :
        j # k /\ nds[i].data.functions[j].name = nds[i].data.functions[k].name

\* the synthetic nodes that carry the id and the back-references of the pair
SyntheticOf(nds, p) ==
    {i \in DOMAIN nds :
        /\ IsDecisionNode(nds[i])
        /\ nds[i].id = PairId(p)
        /\ nds[i].data.sourceNodeId = p.node.id
        /\ nds[i].data.functionName = p.func.name}

\* C1: once the reconciliation has settled, there are as many decision nodes
\* as (node, function) pairs bearing a decision, and every pair has exactly
\* one synthetic node with its composite id and its back-references.
C1_OneSyntheticPerPair ==
    Quiescent =>
        /\ Count(nodes, IsDecisionNode) = Len(DecisionPairs(nodes))
        /\ \A p \in Range(DecisionPairs(nodes)) :
              Cardinality(SyntheticOf(nodes, p)) = 1

\* node ids are unique, two functions of one node bear a decision under one
\* name, and there are fewer decision nodes than pairs
C1_SharedSynthetic ==
    /\ Quiescent
    /\ ~HasDuplicateIds(nodes)
    /\ \E i \in DOMAIN nodes : \E j, k \in DOMAIN nodes[i].data.functions :
          /\ j # k
          /\ HasDecision(nodes[i].data.functions[j])
          /\ HasDecision(nodes[i].data.functions[k])
          /\ nodes[i].data.functions[j].name = nodes[i].data.functions[k].name
    /\ Count(nodes, IsDecisionNode) < Len(DecisionPairs(nodes))

\* the synthetic ids that the last step (a decision removed, a node deleted)
\* left without an owner
Orphaned ==
    IF last.op = "removeDecision"
    THEN {generateDecisionNodeId(last.id, last.name)}
    ELSE {PairId(p) : p \in {q \in Range(DecisionPairs(last.pre)) : q.node.id = last.id}}

\* C2: after a decision was removed or its owning node deleted, and the
\* reconciliation has run again, the synthetic node of that pair is gone and
\* every other node is still there with the id, data and position it had.
C2_RemovesExactlyTheOrphan ==
    (Quiescent /\ last.op \in {"removeDecision", "delete"}) =>
        /\ \A i \in DOMAIN nodes : nodes[i].id \notin Orphaned
        /\ \A i \in DOMAIN last.pre :
              (last.pre[i].id \notin Orphaned /\ last.pre[i].id # last.id)
                  => \E j \in DOMAIN nodes : nodes[j] = last.pre[i]

\* a decision was removed and the synthetic node of the pair is still there
C2_OrphanKept ==
    /\ Quiescent
    /\ last.op = "removeDecision"
    /\ \E i \in DOMAIN nodes : nodes[i].id \in Orphaned

\* C3: in every quiescent state the edges are the derivation of the nodes.
C3_EdgesAreDerived ==
    Quiescent => edges = deriveEdgesFromNodes(nodes)

\* an edge was removed by hand and all effects have run
C3_EdgeRemovedByHand ==
    /\ Quiescent
    /\ last.op = "edgesChange"
    /\ Len(edges) < Len(deriveEdgesFromNodes(nodes))

\* C4: no two nodes of the settled presentation graph have the same id.
C4_NodeIdsUnique ==
    Quiescent => ~HasDuplicateIds(nodes)

\* a node was renamed to the id of another node
C4_RenamedOntoExistingId ==
    /\ Quiescent
    /\ last.op = "rename"
    /\ HasDuplicateIds(RegularNodes(nodes))

\* C5: exactly one node of the settled graph has kind initial.
C5_ExactlyOneInitial ==
    Quiescent => Count(nodes, LAMBDA n : n.type = "initial") = 1

\* the initial node was duplicated
C5_InitialDuplicated ==
    /\ Quiescent
    /\ last.op = "duplicate"
    /\ Count(nodes, LAMBDA n : n.type = "initial") = 2

\* the routing targets of a function, each in its own field
Targets(func) ==
    <<func.next_node_id>>
    \o (IF HasDecision(func)
        THEN <<DecisionOf(func).default_next_node_id>>
             \o [k \in DOMAIN DecisionOf(func).conditions |->
                    DecisionOf(func).conditions[k].next_node_id]
        ELSE <<>>)

\* the nodes whose id the last rename changed, as they are now
RenamedNodes ==
    LET before == RegularNodes(last.pre)
        after == RegularNodes(nodes)
    IN  {after[i] : i \in {k \in DOMAIN after : before[k].id = last.id}}

\* C14: after renaming A to A2 every routing target that was A is A2 and every
\* other target is what it was, in every function of every node; once the
\* renders have settled there is no synthetic node and no edge of A left, each
\* decision of a renamed node has its synthetic node under A2, and the edges
\* are the ones derived from the renamed routing
C14_RenameRewritesReferences ==
    last.op = "rename" =>
        LET before == RegularNodes(last.pre)
            after == RegularNodes(nodes)
        IN  /\ Len(after) = Len(before)
            /\ \A i \in DOMAIN after :
                  /\ after[i].id = RenameRef(before[i].id, last.id, last.to)
                  /\ Len(after[i].data.functions) = Len(before[i].data.functions)
                  /\ \A j \in DOMAIN after[i].data.functions :
                        LET was == Targets(before[i].data.functions[j])
                            is == Targets(after[i].data.functions[j])
                        IN  /\ Len(is) = Len(was)
                            /\ \A k \in DOMAIN is :
                                  is[k] = IF was[k] = last.id THEN last.to ELSE was[k]
            /\ Quiescent =>
                  /\ \A i \in DOMAIN nodes :
                        IsDecisionNode(nodes[i]) => nodes[i].data.sourceNodeId # last.id
                  /\ \A n \in RenamedNodes :
                        \A j \in DOMAIN n.data.functions :
                           HasDecision(n.data.functions[j]) =>
                              \E i \in DOMAIN nodes :
                                 /\ IsDecisionNode(nodes[i])
                                 /\ nodes[i].id = generateDecisionNodeId(
                                                      last.to, n.data.functions[j].name)
                                 /\ nodes[i].data.sourceNodeId = last.to
                  /\ \A i \in DOMAIN edges :
                        edges[i].source # last.id /\ edges[i].target # last.id
                  /\ edges = deriveEdgesFromNodes(nodes)

\* a node that was the default target of its own decision function has been
\* renamed and the renders have settled
C14_RenamedWithReferences ==
    /\ last.op = "rename"
    /\ Quiescent
    /\ last.to \in RenameTargets
    /\ \E n \in Range(RegularNodes(last.pre)) :
          /\ n.id = last.id
          /\ \E j \in DOMAIN n.data.functions :
                /\ HasDecision(n.data.functions[j])
                /\ DecisionOf(n.data.functions[j]).default_next_node_id = last.id
    /\ \E i \in DOMAIN edges : edges[i].target = last.to

\* C10: from the restore of a snapshot by Undo or Redo until the next user
\* event, no step changes the undo history (no push, redo stays available).
C10_NoPushAfterRestore ==
    [][(last.op = "restore" /\ edits' = edits) => undoManager' = undoManager]_vars

\* a restore left something to redo, and it is gone before the next user event
C10_RedoLostAfterRestore ==
    /\ Quiescent
    /\ last.op = "restore"
    /\ canRedo(last.um)
    /\ ~canRedo(undoManager)

-----------------------------------------------------------------------------
(* Runs of the adapters and of the validator on flow documents *)

EditorIdle ==
    /\ nodes = <<>> /\ edges = <<>>
    /\ undoManager = NewUndoManager(Snapshot(<<>>, <<>>))
    /\ skipUndoPush = FALSE /\ nodesDirty = FALSE /\ edgesDirty = FALSE
    /\ pushTimer = FALSE /\ edits = 0 /\ last = NoStep

EditorVars == <<nodes, edges, undoManager, skipUndoPush, nodesDirty, edgesDirty,
                pushTimer, edits>>

DocIds == {<<"a">>, <<"b">>}
DocTargets == DocIds \cup {<<"c">>}
DocNames == {"f", "g"}
DocMetas == {DefaultMeta, [name |-> "Support"]}

DocFunctions ==
    {Function(name, target, Undef) : name \in DocNames, target \in DocTargets}
    \cup {Function(name, Undef, <<Decision("x", conditions, <<"b">>, position)>>) :
             name \in DocNames,
             conditions \in {<<>>, <<Condition("==", "1", <<"a">>)>>},
             position \in {Undef, <<50, 50>>}}

FunctionLists ==
    {<<>>} \cup {<<f>> : f \in DocFunctions}
           \cup {<<f, g>> : f \in DocFunctions, g \in DocFunctions}

DocNodeLists ==
    {<<Node(<<"a">>, "initial", <<0, 0>>, NodeData(<<"A">>, fs))>> : fs \in FunctionLists}
    \cup {<<Node(<<"a">>, "initial", <<0, 0>>, NodeData(<<"A">>, fs)),
            Node(id, "end", <<100, 0>>, NodeData(<<"B">>, gs))>> :
             fs \in FunctionLists, id \in DocIds,
             gs \in {<<>>, <<Function("f", <<"a">>, Undef)>>}}

\* the edges an export writes for these nodes
ExportedEdges(nds) == reactFlowToFlowJson(nds, <<>>).edges

Documents ==
    {FlowJson(meta, nds, eds) :
        meta \in DocMetas, nds \in DocNodeLists, eds \in {<<>>}}
    \cup {FlowJson(meta, nds, ExportedEdges(nds)) :
        meta \in DocMetas, nds \in DocNodeLists}

AdapterInit ==
    /\ EditorIdle
    /\ doc \in Documents
    /\ errs = Undef /\ rf = Undef /\ out = Undef /\ back = Undef
    /\ pushes = Undef /\ result = Undef /\ pc = "doc"
    /\ load = Undef /\ toolbar = Undef /\ inspector = Undef
    /\ props = Undef /\ run = Undef

Validate ==
    /\ pc = "doc"
    /\ errs' = customGraphChecks(doc)
    /\ pc' = "validated"
    /\ UNCHANGED <<EditorVars, ShellVars, last, doc, rf, out, back, pushes, result>>

Import ==
    /\ pc = "validated"
    /\ rf' = flowJsonToReactFlow(doc)
    /\ pc' = "presentation"
    /\ UNCHANGED <<EditorVars, ShellVars, last, doc, errs, out, back, pushes, result>>

Export(edgesIn) ==
    /\ pc = "presentation"
    /\ out' = reactFlowToFlowJson(rf.nodes, edgesIn)
    /\ last' = [op |-> "export", edgesIn |-> edgesIn]
    /\ pc' = "document"
    /\ UNCHANGED <<EditorVars, ShellVars, doc, errs, rf, back, pushes, result>>

Reimport ==
    /\ pc = "document"
    /\ back' = flowJsonToReactFlow(out)
    /\ pc' = "done"
    /\ UNCHANGED <<EditorVars, ShellVars, last, doc, errs, rf, out, pushes, result>>

AdapterNext ==
    \/ Validate
    \/ Import
    \/ pc = "presentation" /\ \E edgesIn \in {rf.edges, <<>>} : Export(edgesIn)
    \/ Reimport

SpecAdapter == AdapterInit /\ [][AdapterNext]_vars

-----------------------------------------------------------------------------
(* Claims on the adapters and the validator *)

RefsOf(json) ==
    Range(Flatten([i \in DOMAIN json.nodes |-> NodeRefs(json.nodes[i])]))
    \cup {json.edges[i].source : i \in DOMAIN json.edges}
    \cup {json.edges[i].target : i \in DOMAIN json.edges}

ReferencesExist(json) == RefsOf(json) \subseteq Range(NodeIds(json.nodes))

ValidDocument(json) ==
    /\ ~HasDuplicateIds(json.nodes)
    /\ ~HasDuplicateNames(json.nodes)
    /\ ReferencesExist(json)

\* C6: for a valid document, exporting the nodes and edges of its import
\* gives the document back, up to an edges array that was missing; no
\* synthetic node is exported and the function data is unchanged.
C6_RoundTrip ==
    (pc \in {"document", "done"} /\ ValidDocument(doc) /\ last.edgesIn = rf.edges) =>
        /\ out.meta = doc.meta
        /\ out.nodes = doc.nodes
        /\ doc.edges # <<>> => out.edges = doc.edges

\* a valid document with a name of its own went through import and export
C6_NamedDocumentExported ==
    /\ pc = "document"
    /\ ValidDocument(doc)
    /\ last.edgesIn = rf.edges
    /\ doc.meta # DefaultMeta
    /\ out.nodes = doc.nodes

EdgeCount(eds, n, f) ==
    Count(eds, LAMBDA e : e.source = n.id /\ e.target = f.next_node_id
                          /\ e.label = f.name)

\* C7: for every function without a decision that names a next node, the
\* exported edges, whatever edges were passed in, and the edges of the
\* import of the export hold exactly one edge (node, next node, name).
C7_OneEdgePerRoute ==
    pc = "done" =>
        \A i \in DOMAIN RegularNodes(rf.nodes) :
            \A j \in DOMAIN RegularNodes(rf.nodes)[i].data.functions :
                LET n == RegularNodes(rf.nodes)[i]
                    f == n.data.functions[j]
                IN  (~HasDecision(f) /\ IsSet(f.next_node_id)) =>
                        /\ EdgeCount(out.edges, n, f) = 1
                        /\ EdgeCount(back.edges, n, f) = 1

\* two functions of one node share the name and the next node
C7_TwoEqualRoutes ==
    /\ pc = "done"
    /\ ~HasDuplicateIds(rf.nodes)
    /\ \E j, k \in DOMAIN rf.nodes[1].data.functions :
          /\ j # k
          /\ rf.nodes[1].data.functions[j] = rf.nodes[1].data.functions[k]
          /\ ~HasDecision(rf.nodes[1].data.functions[j])
          /\ EdgeCount(out.edges, rf.nodes[1], rf.nodes[1].data.functions[j]) = 2

HasDuplicateError(errors) ==
    \E k \in DOMAIN errors : errors[k].message = "Duplicate node id"

\* C8: customGraphChecks reports "Duplicate node id" for every document in
\* which two nodes share an id, and reports nothing for a document with
\* unique ids whose references all name existing nodes.
C8_DuplicateIdsReported ==
    pc # "doc" =>
        /\ HasDuplicateIds(doc.nodes) => HasDuplicateError(errs)
        /\ (~HasDuplicateIds(doc.nodes) /\ ReferencesExist(doc)) => errs = <<>>

\* a document with two nodes of one id has been checked
C8_DuplicateChecked ==
    /\ pc = "validated"
    /\ HasDuplicateIds(doc.nodes)
    /\ HasDuplicateError(errs)

-----------------------------------------------------------------------------
(* Runs of the UndoManager: pushes, then undos, then redos *)

Snapshots == 1..(MaxPushes + 1)

\* the snapshot given to the constructor followed by the snapshots pushed,
\* all pairwise different
PushSequences ==
    {s \in UNION {[1..k -> Snapshots] : k \in 2..(MaxPushes + 1)} :
        \A i, j \in DOMAIN s : i # j => s[i] # s[j]}

PushCount == Len(pushes) - 1

\* n pushes, then n - 1 undos, then n - 1 redos
PhaseAfter(calls) ==
    CASE calls < PushCount -> "push"
      [] calls < 2 * PushCount - 1 -> "undo"
      [] calls < 3 * PushCount - 2 -> "redo"
      [] OTHER -> "done"

UndoInit ==
    /\ pushes \in PushSequences
    /\ undoManager = NewUndoManager(pushes[1])
    /\ nodes = <<>> /\ edges = <<>>
    /\ skipUndoPush = FALSE /\ nodesDirty = FALSE /\ edgesDirty = FALSE
    /\ pushTimer = FALSE /\ edits = 0 /\ last = NoStep
    /\ doc = Undef /\ errs = Undef /\ rf = Undef /\ out = Undef /\ back = Undef
    /\ result = Undef /\ pc = "push"
    /\ load = Undef /\ toolbar = Undef /\ inspector = Undef
    /\ props = Undef /\ run = Undef

Called(um, step) ==
    /\ undoManager' = um
    /\ last' = step
    /\ edits' = edits + 1
    /\ pc' = PhaseAfter(edits + 1)
    /\ UNCHANGED <<nodes, edges, skipUndoPush, nodesDirty, edgesDirty, pushTimer,
                   doc, errs, rf, out, back, pushes, ShellVars>>

push ==
    /\ pc = "push"
    /\ Called(Push(undoManager, pushes[edits + 2]), [op |-> "push"])
    /\ UNCHANGED result

undo ==
    /\ pc = "undo"
    /\ result' = UndoResult(undoManager)
    /\ Called(Undo(undoManager), [op |-> "undo", before |-> undoManager])

redo ==
    /\ pc = "redo"
    /\ result' = RedoResult(undoManager)
    /\ Called(Redo(undoManager), [op |-> "redo", before |-> undoManager])

UndoNext == push \/ undo \/ redo

SpecUndo == UndoInit /\ [][UndoNext]_vars

-----------------------------------------------------------------------------
(* Claims on the UndoManager *)

LastPushed == <<pushes[Len(pushes)]>>

UndoOnEmptyIsNull ==
    (last.op = "undo" /\ ~canUndo(last.before)) =>
        (result = Null /\ undoManager = last.before)

\* C9 as stated: after n pushes, n - 1 undos and n - 1 redos, whatever n is,
\* the last result is the last snapshot pushed and nothing can be redone; an
\* undo with nothing to undo returns null and changes nothing.
C9_UndoRedoInverse ==
    /\ (pc = "done" /\ PushCount >= 2) => result = LastPushed
    /\ pc = "done" => ~canRedo(undoManager)
    /\ UndoOnEmptyIsNull

\* C9 for the bounded stack: the same, for n pushes that the history can
\* hold (n at most HistoryLimit).
C9_UndoRedoInverseWithinLimit ==
    /\ (pc = "done" /\ PushCount >= 2 /\ PushCount <= HistoryLimit)
          => result = LastPushed
    /\ pc = "done" => ~canRedo(undoManager)
    /\ UndoOnEmptyIsNull

\* as many pushes as the history holds were undone and redone
C9_FullHistoryRedone ==
    /\ pc = "done"
    /\ PushCount = HistoryLimit
    /\ result = LastPushed
    /\ ~canRedo(undoManager)

-----------------------------------------------------------------------------
(* Structural validation.  The schema asks for at least one node and for   *)
(* a node type out of the three document types.                            *)

NodeTypes == {"initial", "node", "end"}

validateFlowJson(json) ==
    [valid |-> /\ Len(json.nodes) >= 1
               /\ \A i \in DOMAIN json.nodes : json.nodes[i].type \in NodeTypes]

-----------------------------------------------------------------------------
(* Route entry: the remote fetch of the flow and the localStorage fallback *)

MaxNavigations == 2
MaxLocalEdits == 1

\* the agent ids of the editor routes
Routes == {"support", "sales"}

\* the flow the backend holds for a route
RouteFlow(route) ==
    FlowJson([name |-> route],
             <<Node(<<route>>, "initial", <<0, 0>>, NodeData(<<route>>, <<>>))>>,
             <<>>)

\* what localStorage holds when the editor opens
SavedGraph ==
    Snapshot(<<Node(<<"saved">>, "initial", <<0, 0>>, NodeData(<<"saved">>, <<>>))>>,
             <<>>)

\* response bodies: the shapes the backend answers with, and one without a flow
Responses(route) ==
    {[ok |-> FALSE, shape |-> "none", flow |-> Null],
     [ok |-> TRUE, shape |-> "none", flow |-> Null],
     [ok |-> TRUE, shape |-> "flows_prompt", flow |-> <<RouteFlow(route)>>],
     [ok |-> TRUE, shape |-> "flow", flow |-> <<RouteFlow(route)>>],
     [ok |-> TRUE, shape |-> "root", flow |-> <<RouteFlow(route)>>],
     [ok |-> TRUE, shape |-> "flow",
      flow |-> <<FlowJson([name |-> route], <<>>, <<>>)>>]}

extractFlowFromResponse(data) ==
    IF data.shape \in {"flows_prompt", "flow", "root"} THEN data.flow ELSE Null

Fetch(route) == [route |-> route, issuedAt |-> edits, state |-> "pending"]

Pending(l) == {i \in DOMAIN l.fetches : l.fetches[i].state = "pending"}

\* the editor is mounted on a route: both effects have run
LoadInit ==
    /\ nodes = InitialGraph.nodes
    /\ edges = InitialGraph.edges
    /\ undoManager = NewUndoManager(Snapshot(InitialGraph.nodes, InitialGraph.edges))
    /\ skipUndoPush = FALSE /\ nodesDirty = FALSE /\ edgesDirty = FALSE
    /\ pushTimer = TRUE /\ edits = 0 /\ last = NoStep
    /\ doc = Undef /\ errs = Undef /\ rf = Undef /\ out = Undef /\ back = Undef
    /\ pushes = Undef /\ result = Undef /\ pc = "load"
    /\ toolbar = Undef /\ inspector = Undef
    /\ props = Undef /\ run = Undef
    /\ \E route \in Routes, saved \in {Null, <<SavedGraph>>} :
          load = [pathname |-> route,
                  hasLoadedFromApi |-> FALSE,
                  fetches |-> <<[route |-> route, issuedAt |-> 0, state |-> "pending"]>>,
                  timer |-> TRUE,
                  saved |-> saved,
                  loads |-> 0,
                  holds |-> "none"]

LoadFrame ==
    UNCHANGED <<doc, errs, rf, out, back, pushes, result, pc, toolbar, inspector,
                props, run>>

\* the pathname changes; the fetch effect runs again for the new route
Navigate(route) ==
    /\ route # load.pathname
    /\ Len(load.fetches) <= MaxNavigations
    /\ load' = [load EXCEPT !.pathname = route,
                            !.hasLoadedFromApi = FALSE,
                            !.fetches = Append(@, Fetch(route)),
                            !.loads = 0]
    /\ UNCHANGED <<nodes, edges, undoManager, skipUndoPush, nodesDirty, edgesDirty,
                   pushTimer, edits, last>>
    /\ LoadFrame

\* fetchFlowsPrompt resumes after its await with the response of fetch i
fetchFlowsPrompt(i, response) ==
    /\ i \in Pending(load)
    /\ LET flowJson == IF response.ok THEN extractFlowFromResponse(response) ELSE Null
           valid == flowJson # Null /\ validateFlowJson(flowJson[1]).valid
           flow == flowJsonToReactFlow(flowJson[1])
           step == [op |-> "response", issuedAt |-> load.fetches[i].issuedAt,
                    loaded |-> valid, pre |-> nodes]
       IN  IF valid
           THEN /\ load' = [load EXCEPT !.hasLoadedFromApi = TRUE,
                                        !.fetches[i].state = "loaded",
                                        !.loads = @ + 1,
                                        !.holds = load.fetches[i].route]
                /\ nodes' = flow.nodes
                /\ edges' = flow.edges
                /\ undoManager' = NewUndoManager(Snapshot(flow.nodes, flow.edges))
                /\ nodesDirty' = TRUE
                /\ edgesDirty' = TRUE
                /\ last' = step
                /\ UNCHANGED <<skipUndoPush, pushTimer, edits>>
           ELSE /\ load' = [load EXCEPT
                              !.hasLoadedFromApi =
                                  IF response.ok /\ flowJson # Null THEN FALSE ELSE @,
                              !.fetches[i].state = "failed"]
                /\ last' = step
                /\ UNCHANGED <<nodes, edges, undoManager, skipUndoPush, nodesDirty,
                               edgesDirty, pushTimer, edits>>
    /\ LoadFrame

\* the 500 ms timer set on mount fires
FallbackTimeout ==
    /\ load.timer
    /\ IF ~load.hasLoadedFromApi /\ load.saved # Null
       THEN /\ load' = [load EXCEPT !.timer = FALSE, !.loads = @ + 1,
                                    !.holds = "storage"]
            /\ nodes' = load.saved[1].nodes
            /\ edges' = load.saved[1].edges
            /\ nodesDirty' = TRUE
            /\ edgesDirty' = TRUE
            /\ last' = [op |-> "fallback", pre |-> nodes]
            /\ UNCHANGED <<undoManager, skipUndoPush, pushTimer, edits>>
       ELSE /\ load' = [load EXCEPT !.timer = FALSE]
            /\ UNCHANGED <<nodes, edges, undoManager, skipUndoPush, nodesDirty,
                           edgesDirty, pushTimer, edits, last>>
    /\ LoadFrame

\* the debounced autosave writes the rendered graph
Autosave ==
    /\ Quiescent
    /\ load.saved # <<Snapshot(nodes, edges)>>
    /\ load' = [load EXCEPT !.saved = <<Snapshot(nodes, edges)>>]
    /\ UNCHANGED <<nodes, edges, undoManager, skipUndoPush, nodesDirty, edgesDirty,
                   pushTimer, edits, last>>
    /\ LoadFrame

LoadNext ==
    \/ \E route \in Routes : Navigate(route)
    \/ \E i \in 1..(MaxNavigations + 1), route \in Routes :
          \E response \in Responses(route) :
             /\ i \in DOMAIN load.fetches
             /\ load.fetches[i].route = route
             /\ fetchFlowsPrompt(i, response)
    \/ FallbackTimeout
    \/ Autosave
    \/ edits < MaxLocalEdits /\ \E id \in RegularIds : addItem(id)
    \/ Effects
    \/ PushTimeout

SpecLoad == LoadInit /\ [][LoadNext]_vars

\* C11: when the user has edited the graph since a fetch was issued, the
\* arrival of its response leaves nodes and edges as they were
C11_ResponseKeepsLocalEdits ==
    [][(Pending(load') # Pending(load) /\ Len(load'.fetches) = Len(load.fetches)
        /\ last'.issuedAt < edits)
       => (nodes' = nodes /\ edges' = edges)]_vars

\* a response has just replaced a graph that held an edit made after its fetch
C11_LocalEditsReplaced ==
    /\ last.op = "response"
    /\ last.issuedAt < edits
    /\ last.loaded
    /\ \E i \in DOMAIN last.pre : Len(last.pre[i].data.functions) > 0
    /\ \A i \in DOMAIN nodes : Len(nodes[i].data.functions) = 0

LatestFetch == load.fetches[Len(load.fetches)]

\* C12: once every response has arrived and the fetch of the latest route
\* has loaded its flow, the graph holds the flow of the latest route
C12_LatestRouteWins ==
    (Pending(load) = {} /\ LatestFetch.state = "loaded")
       => load.holds = load.pathname

\* every response is in, the latest fetch loaded, and the graph shows the
\* flow of the route the user left
C12_SupersededFlowShown ==
    /\ Pending(load) = {}
    /\ LatestFetch.state = "loaded"
    /\ load.holds \in Routes \ {load.pathname}
    /\ nodes = flowJsonToReactFlow(RouteFlow(load.holds)).nodes
    /\ Quiescent

\* C13: a load sets the graph only if no load has set it since the route
\* was entered and hasLoadedFromApi is not set
C13_AtMostOneLoad ==
    [][load'.loads > load.loads
       => (load.loads = 0 /\ ~load.hasLoadedFromApi)]_vars

\* within one route entry the graph was set from localStorage and then
\* again from the response
C13_LoadedTwice ==
    /\ load.loads = 2
    /\ Len(load.fetches) = 1
    /\ load.holds \in Routes

-----------------------------------------------------------------------------
(* Toolbar: import, the three exports and the deletions of the shell *)

MaxToolbarEdits == 3

\* a file the user picks: text that does not parse, or the text of a document
Unparseable == [json |-> Null]
FileOf(json) == [json |-> <<json>>]

LinkedNodes ==
    <<Node(<<"a">>, "initial", <<0, 0>>,
           NodeData(<<"A">>, <<Function("f", <<"b">>, Undef)>>)),
      Node(<<"b">>, "end", <<100, 0>>, NodeData(<<"B">>, <<>>))>>

DecidingNodes ==
    <<Node(<<"a">>, "initial", <<0, 0>>,
           NodeData(<<"A">>,
               <<Function("f", Undef,
                          <<Decision("x", <<Condition("==", "1", <<"a">>)>>,
                                     <<"b">>, Undef)>>)>>)),
      Node(<<"b">>, "end", <<100, 0>>, NodeData(<<"B">>, <<>>))>>

ImportDocuments ==
    {\* one node, not the initial one
     FlowJson(DefaultMeta,
              <<Node(<<"b">>, "end", <<0, 0>>, NodeData(<<"B">>, <<>>))>>, <<>>),
     FlowJson(DefaultMeta, LinkedNodes, ExportedEdges(LinkedNodes)),
     FlowJson(DefaultMeta, DecidingNodes, ExportedEdges(DecidingNodes)),
     \* two nodes under one id
     FlowJson(DefaultMeta,
              <<LinkedNodes[2], [LinkedNodes[2] EXCEPT !.position = <<50, 50>>]>>,
              <<>>),
     \* a function routed to a node that is not in the document
     FlowJson(DefaultMeta, <<LinkedNodes[1]>>, <<>>),
     \* an edge to a node that is not in the document
     FlowJson(DefaultMeta, <<LinkedNodes[2]>>,
              <<Edge(<<"b">>, <<"c">>, "f")>>),
     \* no node at all, a node of a type the schema does not know
     FlowJson(DefaultMeta, <<>>, <<>>),
     FlowJson(DefaultMeta, <<[LinkedNodes[2] EXCEPT !.type = "start"]>>, <<>>)}

ImportFiles == {Unparseable} \cup {FileOf(json) : json \in ImportDocuments}

\* what the user types into window.prompt: null (cancel), nothing, a name
PromptAnswers == {Null, EmptyId, <<"flow">>, <<"flow", "json">>, <<"flow", "py">>}

normalizedFileName(inputName, extension) ==
    IF inputName[Len(inputName)] = extension
    THEN inputName
    ELSE inputName \o <<extension>>

\* the generated scaffold: one handler per node, and the handlers its
\* routing returns
generatePythonCode(json) ==
    [handlers |-> Range(NodeIds(json.nodes)),
     returns |-> Range(Flatten([i \in DOMAIN json.nodes |->
                                   NodeRefs(json.nodes[i])]))]

ToolbarInit ==
    /\ nodes = InitialGraph.nodes
    /\ edges = InitialGraph.edges
    /\ undoManager = NewUndoManager(Snapshot(InitialGraph.nodes, InitialGraph.edges))
    /\ skipUndoPush = FALSE /\ nodesDirty = FALSE /\ edgesDirty = FALSE
    /\ pushTimer = TRUE /\ edits = 0 /\ last = NoStep
    /\ doc = Undef /\ errs = Undef /\ rf = Undef /\ out = Undef /\ back = Undef
    /\ pushes = Undef /\ result = Undef /\ pc = "toolbar"
    /\ load = Undef /\ inspector = Undef
    /\ props = Undef /\ run = Undef
    /\ \E url \in BOOLEAN, agentIdFromUrl \in {"", "support"} :
          toolbar = [FLOWS_PROMPT_URL |-> url,
                     agentIdFromUrl |-> agentIdFromUrl,
                     download |-> Null,
                     request |-> Null]

ToolbarEvent == Quiescent /\ edits < MaxToolbarEdits

\* a handler that returned before it changed anything
Returned(step) ==
    /\ edits' = edits + 1
    /\ last' = step
    /\ UNCHANGED <<nodes, edges, undoManager, skipUndoPush, nodesDirty, edgesDirty,
                   pushTimer, PureVars>>

\* the import without the graph checks
onImportSchemaOnly(file) ==
    /\ ToolbarEvent
    /\ LET step == [op |-> "import", file |-> file, pre |-> Snapshot(nodes, edges)]
       IN  IF file.json = Null
           THEN Returned(step)
           ELSE IF ~validateFlowJson(file.json[1]).valid
           THEN Returned(step)
           ELSE /\ SetGraph(flowJsonToReactFlow(file.json[1]).nodes,
                            flowJsonToReactFlow(file.json[1]).edges, TRUE, TRUE, step)
                /\ UNCHANGED <<undoManager, skipUndoPush>>

\* reader.onload of the import
onImport(file) ==
    /\ ToolbarEvent
    /\ LET step == [op |-> "import", file |-> file, pre |-> Snapshot(nodes, edges)]
       IN  IF file.json = Null
           THEN Returned(step)
           ELSE IF ~validateFlowJson(file.json[1]).valid
           THEN Returned(step)
           ELSE IF Len(customGraphChecks(file.json[1])) # 0
           THEN Returned(step)
           ELSE /\ SetGraph(flowJsonToReactFlow(file.json[1]).nodes,
                            flowJsonToReactFlow(file.json[1]).edges, TRUE, TRUE, step)
                /\ UNCHANGED <<undoManager, skipUndoPush>>

\* the node branch of the inspector's onDelete
onDelete(id) ==
    /\ UserEvent
    /\ canDeleteNode(Find(nodes, id))
    /\ SetNodes(deleteNode(nodes, id),
                [op |-> "onDelete", id |-> id, pre |-> nodes])

\* a toolbar handler that leaves the graph alone
Sent(download, request, step) ==
    /\ toolbar' = [toolbar EXCEPT !.download = download, !.request = request]
    /\ last' = step
    /\ UNCHANGED <<nodes, edges, undoManager, skipUndoPush, nodesDirty, edgesDirty,
                   pushTimer, edits, doc, errs, rf, out, back, pushes, result, pc,
                   load, inspector, props, run>>

onExport(inputName) ==
    /\ Quiescent
    /\ LET json == reactFlowToFlowJson(nodes, edges)
           step == [op |-> "export", json |-> json]
       IN  IF inputName = Null \/ inputName = EmptyId
           THEN Sent(toolbar.download, toolbar.request, step)
           ELSE Sent(<<[name |-> normalizedFileName(inputName, "json"),
                        type |-> "application/json", json |-> json,
                        content |-> json]>>,
                     toolbar.request, step)

onExportPython(inputName) ==
    /\ Quiescent
    /\ LET json == reactFlowToFlowJson(nodes, edges)
           step == [op |-> "exportPython", json |-> json]
       IN  IF ~validateFlowJson(json).valid
           THEN Sent(toolbar.download, toolbar.request, step)
           ELSE IF inputName = Null \/ inputName = EmptyId
           THEN Sent(toolbar.download, toolbar.request, step)
           ELSE Sent(<<[name |-> normalizedFileName(inputName, "py"),
                        type |-> "text/x-python", json |-> json,
                        content |-> generatePythonCode(json)]>>,
                     toolbar.request, step)

\* the save without the graph checks
onSaveTemplateSchemaOnly ==
    /\ Quiescent
    /\ LET json == reactFlowToFlowJson(nodes, edges)
           step == [op |-> "save", json |-> json]
       IN  IF ~toolbar.FLOWS_PROMPT_URL
           THEN Sent(toolbar.download, toolbar.request, step)
           ELSE IF toolbar.agentIdFromUrl = ""
           THEN Sent(toolbar.download, toolbar.request, step)
           ELSE IF ~validateFlowJson(json).valid
           THEN Sent(toolbar.download, toolbar.request, step)
           ELSE Sent(toolbar.download,
                     <<[method |-> "PUT", agent_id |-> toolbar.agentIdFromUrl,
                        flows_prompt |-> json]>>,
                     step)

onSaveTemplate ==
    /\ Quiescent
    /\ LET json == reactFlowToFlowJson(nodes, edges)
           step == [op |-> "save", json |-> json]
       IN  IF ~toolbar.FLOWS_PROMPT_URL
           THEN Sent(toolbar.download, toolbar.request, step)
           ELSE IF toolbar.agentIdFromUrl = ""
           THEN Sent(toolbar.download, toolbar.request, step)
           ELSE IF ~validateFlowJson(json).valid
           THEN Sent(toolbar.download, toolbar.request, step)
           ELSE IF Len(customGraphChecks(json)) # 0
           THEN Sent(toolbar.download, toolbar.request, step)
           ELSE Sent(toolbar.download,
                     <<[method |-> "PUT", agent_id |-> toolbar.agentIdFromUrl,
                        flows_prompt |-> json]>>,
                     step)

ToolbarNext ==
    \/ \E file \in ImportFiles : onImport(file)
    \/ edits < MaxToolbarEdits /\ \E id \in RegularIds : handleDeleteNode(id)
    \/ edits < MaxToolbarEdits /\ \E id \in RegularIds : onDelete(id)
    \/ \E inputName \in PromptAnswers : onExport(inputName)
    \/ \E inputName \in PromptAnswers : onExportPython(inputName)
    \/ onSaveTemplate
    \/ Effects

SpecToolbar == ToolbarInit /\ [][ToolbarNext]_vars

\* both validation layers pass
PassesBothLayers(json) ==
    validateFlowJson(json).valid /\ Len(customGraphChecks(json)) = 0

\* the node with this id is the only initial node of the list
SoleInitial(nds, id) ==
    /\ \E i \in DOMAIN nds : nds[i].id = id /\ nds[i].type = "initial"
    /\ Cardinality({i \in DOMAIN nds : nds[i].type = "initial"}) = 1

\* C15: no deletion from the context menu or the inspector takes the sole
\* initial node, or a node while only one node is left
C15_DeleteGuards ==
    [][(edits' = edits + 1 /\ last'.op \in {"delete", "onDelete"}
        /\ (SoleInitial(nodes, last'.id) \/ Len(RegularNodes(nodes)) = 1))
       => nodes' = nodes]_vars

\* the only node of the graph has been deleted
C15_LastNodeDeleted ==
    /\ last.op \in {"delete", "onDelete"}
    /\ Len(RegularNodes(last.pre)) = 1
    /\ nodes = <<>>

\* the file parses and its document passes both layers
Accepted(file) == file.json # Null /\ PassesBothLayers(file.json[1])

\* C17: an import sets nodes and edges to the presentation of the file's
\* document when the file parses and passes both validation layers, and
\* leaves nodes and edges as they were otherwise
C17_ImportIsGated ==
    [][(edits' = edits + 1 /\ last'.op = "import")
       => IF Accepted(last'.file)
          THEN /\ nodes' = flowJsonToReactFlow(last'.file.json[1]).nodes
               /\ edges' = flowJsonToReactFlow(last'.file.json[1]).edges
          ELSE nodes' = nodes /\ edges' = edges]_vars

\* a file that passes the schema and fails the graph checks was picked while
\* an imported graph was on the canvas, and the graph is still there
C17_InvalidImportRefused ==
    /\ last.op = "import"
    /\ last.file.json # Null
    /\ validateFlowJson(last.file.json[1]).valid
    /\ Len(customGraphChecks(last.file.json[1])) > 0
    /\ Len(last.pre.nodes) > 1
    /\ nodes = last.pre.nodes
    /\ edges = last.pre.edges

\* C18: a downloaded JSON export passes both validation layers
C18_JsonExportIsValid ==
    (toolbar.download # Null /\ toolbar.download[1].type = "application/json")
       => PassesBothLayers(toolbar.download[1].json)

\* a JSON export was downloaded whose function routes to a deleted node
C18_InvalidJsonDownloaded ==
    /\ toolbar.download # Null
    /\ toolbar.download[1].type = "application/json"
    /\ validateFlowJson(toolbar.download[1].json).valid
    /\ \E i \in DOMAIN customGraphChecks(toolbar.download[1].json) :
          customGraphChecks(toolbar.download[1].json)[i].message
             = "Function references unknown node"

\* C19: downloaded Python source was generated from a document that passes
\* both validation layers
C19_PythonExportIsValid ==
    (toolbar.download # Null /\ toolbar.download[1].type = "text/x-python")
       => PassesBothLayers(toolbar.download[1].json)

\* Python source was downloaded that returns a handler it does not define
C19_UndefinedHandlerDownloaded ==
    /\ toolbar.download # Null
    /\ toolbar.download[1].type = "text/x-python"
    /\ ~(toolbar.download[1].content.returns
            \subseteq toolbar.download[1].content.handlers)

\* C20: a PUT request was sent only with the backend URL and the agent id
\* present and carries a document that passes both validation layers
C20_SaveIsGated ==
    toolbar.request # Null
       => /\ toolbar.FLOWS_PROMPT_URL
          /\ toolbar.agentIdFromUrl # ""
          /\ PassesBothLayers(toolbar.request[1].flows_prompt)

\* an imported flow was saved, and a later save of the graph with a dangling
\* route sent nothing
C20_ValidSavedInvalidHeld ==
    /\ toolbar.request # Null
    /\ Len(toolbar.request[1].flows_prompt.nodes) = 2
    /\ last.op = "save"
    /\ ~PassesBothLayers(last.json)

-----------------------------------------------------------------------------
(* Functions inspector: one function item and its dangling-target warnings *)

MaxInspectorEdits == 2

\* nodes.map((n) => n.id): the node of the function is always in the list
InspectorNodeLists == {<<<<"a">>>>, <<<<"a">>, <<"b">>>>}

InspectorFunctions ==
    {Function("f", next, Undef) : next \in {Undef, <<"a">>, <<"gone">>}}
    \cup {Function("f", next, <<Decision("x", conditions, default, Undef)>>) :
             next \in {Undef, <<"a">>, <<"gone">>},
             conditions \in {<<>>, <<Condition("==", "1", <<"a">>)>>,
                             <<Condition("==", "1", <<"gone">>)>>,
                             <<Condition("==", "1", EmptyId)>>},
             default \in {EmptyId, <<"a">>, <<"gone">>}}

hasInvalidNextNode(func, availableNodeIds) ==
    func.next_node_id # Undef /\ func.next_node_id \notin Range(availableNodeIds)

\* a string is truthy unless it is undefined or empty
Truthy(id) == id # Undef /\ id # EmptyId

hasInvalidConditionNode(condition, availableNodeIds) ==
    Truthy(condition.next_node_id)
    /\ condition.next_node_id \notin Range(availableNodeIds)

InspectorInit ==
    /\ nodes = <<>> /\ edges = <<>> /\ undoManager = Undef
    /\ skipUndoPush = FALSE /\ nodesDirty = FALSE /\ edgesDirty = FALSE
    /\ pushTimer = FALSE /\ edits = 0 /\ last = NoStep
    /\ doc = Undef /\ errs = Undef /\ rf = Undef /\ out = Undef /\ back = Undef
    /\ pushes = Undef /\ result = Undef /\ pc = "inspector"
    /\ load = Undef /\ toolbar = Undef
    /\ props = Undef /\ run = Undef
    /\ \E func \in InspectorFunctions, availableNodeIds \in InspectorNodeLists :
          inspector = [func |-> func, availableNodeIds |-> availableNodeIds,
                       rendered |-> Null]

InspectorFrame ==
    UNCHANGED <<nodes, edges, undoManager, skipUndoPush, nodesDirty, edgesDirty,
                pushTimer, last, doc, errs, rf, out, back, pushes, result, pc,
                load, toolbar, props, run>>

\* FunctionItem renders: the label of the Next Node section, its warning, and
\* the warning of every condition
FunctionItem ==
    /\ inspector.rendered = Null
    /\ LET func == inspector.func
           ids == inspector.availableNodeIds
       IN  inspector' = [inspector EXCEPT !.rendered =
               <<[nextNodeLabel |-> IF HasDecision(func) THEN "Default Next Node"
                                    ELSE "Next Node",
                  nextNodeWarning |-> hasInvalidNextNode(func, ids),
                  clearShown |-> Truthy(func.next_node_id) /\ ~HasDecision(func),
                  conditionWarnings |->
                      IF HasDecision(func)
                      THEN [k \in DOMAIN DecisionOf(func).conditions |->
                               hasInvalidConditionNode(
                                   DecisionOf(func).conditions[k], ids)]
                      ELSE <<>>]>>]
    /\ UNCHANGED edits
    /\ InspectorFrame

\* onChange of the item: the function is replaced and the item renders again
onChange(func) ==
    /\ inspector.rendered # Null
    /\ edits < MaxInspectorEdits
    /\ inspector' = [inspector EXCEPT !.func = func, !.rendered = Null]
    /\ edits' = edits + 1
    /\ InspectorFrame

\* the Clear button of the Next Node section
onClearNextNode ==
    /\ inspector.rendered # Null
    /\ inspector.rendered[1].clearShown
    /\ onChange([inspector.func EXCEPT !.next_node_id = Undef])

\* a choice in the select of the Next Node section
onNextNodeChange(v) ==
    /\ v \in Range(inspector.availableNodeIds)
    /\ IF HasDecision(inspector.func)
       THEN onChange([inspector.func EXCEPT
                         !.decision = <<[DecisionOf(inspector.func) EXCEPT
                                            !.default_next_node_id = v]>>])
       ELSE onChange([inspector.func EXCEPT !.next_node_id = v])

\* a choice in the select of a condition
onConditionNodeChange(condIndex, v) ==
    /\ v \in Range(inspector.availableNodeIds)
    /\ HasDecision(inspector.func)
    /\ condIndex \in DOMAIN DecisionOf(inspector.func).conditions
    /\ onChange([inspector.func EXCEPT
                    !.decision = <<[DecisionOf(inspector.func) EXCEPT
                                       !.conditions[condIndex].next_node_id = v]>>])

\* the node list changes under the item: a node is deleted
onNodeDeleted(id) ==
    /\ inspector.rendered # Null
    /\ edits < MaxInspectorEdits
    /\ id \in Range(inspector.availableNodeIds)
    /\ Len(inspector.availableNodeIds) > 1
    /\ inspector' = [inspector EXCEPT
                        !.availableNodeIds = SelectSeq(@, LAMBDA n : n # id),
                        !.rendered = Null]
    /\ edits' = edits + 1
    /\ InspectorFrame

InspectorNext ==
    \/ FunctionItem
    \/ onClearNextNode
    \/ \E v \in {<<"a">>, <<"b">>} : onNextNodeChange(v)
    \/ \E v \in {<<"a">>, <<"b">>} : onConditionNodeChange(1, v)
    \/ \E id \in {<<"a">>, <<"b">>} : onNodeDeleted(id)

SpecInspector == InspectorInit /\ [][InspectorNext]_vars

\* the target is set and names no node of the list
Dangling(id, availableNodeIds) ==
    id # Undef /\ id # EmptyId /\ id \notin Range(availableNodeIds)

\* C16: a render of the function item leaves the function as it is, flags
\* the Next Node field exactly when the target that field edits (the default
\* target of a decision, the plain target otherwise) is dangling, and flags
\* each condition exactly when its own target is dangling
C16_WarningsMatchTargets ==
    [][(inspector.rendered = Null /\ inspector'.rendered # Null)
       => LET func == inspector.func
              ids == inspector.availableNodeIds
              shown == inspector'.rendered[1]
          IN  /\ inspector'.func = func
              /\ shown.nextNodeWarning =
                    IF HasDecision(func)
                    THEN Dangling(DecisionOf(func).default_next_node_id, ids)
                    ELSE Dangling(func.next_node_id, ids)
              /\ HasDecision(func) =>
                    /\ Len(shown.conditionWarnings) = Len(DecisionOf(func).conditions)
                    /\ \A k \in DOMAIN shown.conditionWarnings :
                          shown.conditionWarnings[k] =
                             Dangling(DecisionOf(func).conditions[k].next_node_id, ids)]_vars

\* the default target of a decision names a deleted node and the Default
\* Next Node field is rendered without a warning
C16_DanglingDefaultUnflagged ==
    /\ inspector.rendered # Null
    /\ HasDecision(inspector.func)
    /\ Dangling(DecisionOf(inspector.func).default_next_node_id,
                inspector.availableNodeIds)
    /\ inspector.rendered[1].nextNodeLabel = "Default Next Node"
    /\ ~inspector.rendered[1].nextNodeWarning

(***************************************************************************)
(* Self-loop edges: how far to the left of the node each loop is drawn     *)
(***************************************************************************)

\* the longest list of functions on the node whose loops are rendered
MaxLoopFunctions == 3

LoopNode == <<"a">>
LoopNames == {"", "a", "ok", "retry", "escalate"}
LoopNodeWidths == {150, 200}

\* lists of functions with distinct names, each looping back or leading away
LoopFunctionLists ==
    {fs \in UNION {[1..n -> [name : LoopNames, next_node_id : {LoopNode, <<"b">>}]] :
                      n \in 2..MaxLoopFunctions} :
        \A i, j \in DOMAIN fs : i # j => fs[i].name # fs[j].name}

measureLabelWidth(text) == Len(text) * 6 + 4

selfLoopFunctions(sourceNode) ==
    SelectSeq(sourceNode.functions, LAMBDA func : func.next_node_id = sourceNode.id)

\* findIndex over the self-loop functions, counted from 0; a miss counts as 0
normalizedLoopIndex(loops, labelText) ==
    IF \E i \in DOMAIN loops : loops[i].name = labelText
    THEN (CHOOSE i \in DOMAIN loops :
             /\ loops[i].name = labelText
             /\ \A j \in 1..(i - 1) : loops[j].name # labelText) - 1
    ELSE 0

RECURSIVE SumLabelWidths(_, _)
SumLabelWidths(loops, n) ==
    IF n = 0 THEN 0
    ELSE SumLabelWidths(loops, n - 1) + measureLabelWidth(loops[n].name) + 4

\* the offset without the labels in front: every loop starts at the node
cumulativeLabelWidthNone(loops, index) == 0

cumulativeLabelWidth(loops, index) ==
    IF index > 0 THEN SumLabelWidths(loops, index) ELSE 0

buildSelfLoopGeometry(startX, baseHorizontalSpacing, horizontalOffset) ==
    LET totalHorizontalSpacing == baseHorizontalSpacing + horizontalOffset
    IN  [totalHorizontalSpacing |-> totalHorizontalSpacing,
         labelX |-> startX - totalHorizontalSpacing]

\* the geometry SelfLoopEdge computes for the edge labelled label
SelfLoopGeometry(sourceNode, label) ==
    LET loops == selfLoopFunctions(sourceNode)
        index == normalizedLoopIndex(loops, label)
        minSpacing == (sourceNode.width \div 2) + 10
        baseSpacing == minSpacing + (measureLabelWidth(label) \div 2)
    IN  buildSelfLoopGeometry(0, baseSpacing, cumulativeLabelWidth(loops, index))

SelfLoopInit ==
    /\ nodes = <<>> /\ edges = <<>> /\ undoManager = Undef
    /\ skipUndoPush = FALSE /\ nodesDirty = FALSE /\ edgesDirty = FALSE
    /\ pushTimer = FALSE /\ edits = 0 /\ last = NoStep
    /\ doc = Undef /\ errs = Undef /\ rf = Undef /\ out = Undef /\ back = Undef
    /\ pushes = Undef /\ result = Undef /\ pc = "selfLoop"
    /\ load = Undef /\ toolbar = Undef /\ inspector = Undef /\ props = Undef
    /\ \E fs \in LoopFunctionLists, width \in LoopNodeWidths :
          run = [sourceNode |-> [id |-> LoopNode, width |-> width, functions |-> fs],
                 drawn |-> <<>>]

RunFrame ==
    UNCHANGED <<nodes, edges, undoManager, skipUndoPush, nodesDirty, edgesDirty,
                pushTimer, edits, last, doc, errs, rf, out, back, pushes, result,
                pc, load, toolbar, inspector, props>>

\* the edge of one self-loop function is rendered
SelfLoopEdge(index) ==
    /\ pc = "selfLoop"
    /\ LET loops == selfLoopFunctions(run.sourceNode)
       IN  /\ index \in DOMAIN loops
           /\ \A d \in Range(run.drawn) : d.index # index
           /\ run' = [run EXCEPT !.drawn = Append(@,
                        [index |-> index, label |-> loops[index].name,
                         geometry |-> SelfLoopGeometry(run.sourceNode, loops[index].name)])]
    /\ RunFrame

SelfLoopNext == \E index \in 1..MaxLoopFunctions : SelfLoopEdge(index)

SpecSelfLoop == SelfLoopInit /\ [][SelfLoopNext]_vars

\* C21: among the loops drawn for one node, a loop later in the order of the
\* node's self-loop functions reaches strictly further out than an earlier one,
\* whatever the lengths of the names
C21_LaterLoopReachesFurther ==
    pc = "selfLoop" =>
        \A d, e \in Range(run.drawn) :
            d.index < e.index =>
                d.geometry.totalHorizontalSpacing < e.geometry.totalHorizontalSpacing

\* two loops are drawn and the later one has the shorter name
C21_ShortNameAfterLongName ==
    /\ pc = "selfLoop"
    /\ \E d, e \in Range(run.drawn) :
          /\ d.index < e.index
          /\ Len(e.label) < Len(d.label)
          /\ d.geometry.totalHorizontalSpacing < e.geometry.totalHorizontalSpacing

(***************************************************************************)
(* The reconciliation effect on its own, started from arbitrary node sets  *)
(***************************************************************************)

\* passes counted before the counter stops
MaxPasses == 3

ReconcileSource == <<"a">>

ReconcileDecisions ==
    {Undef} \cup {<<Decision(action, <<>>, EmptyId, Undef)>> : action \in {"x", "y"}}

ReconcileFunctions ==
    {Function(name, Undef, decision) :
        name \in {"f", "g"}, decision \in ReconcileDecisions}

\* one or two functions; two of them may bear the same name
ReconcileFunctionLists ==
    UNION {[1..n -> ReconcileFunctions] : n \in 1..2}

SyntheticNode(functionName, action, position) ==
    Node(generateDecisionNodeId(ReconcileSource, functionName), "decision", position,
         [label |-> <<functionName>>, functions |-> <<>>, action |-> action,
          conditionCount |-> 0, sourceNodeId |-> ReconcileSource,
          functionName |-> functionName])

\* what stands next to the source node: nothing, a synthetic node of f or h
\* that is fresh, stale or moved, or a regular node under the synthetic id of f
ReconcileOthers ==
    {<<>>}
    \cup {<<SyntheticNode(name, action, position)>> :
            name \in {"f", "h"}, action \in {"x", "z"},
            position \in {<<200, 0>>, <<50, 50>>}}
    \cup {<<Node(generateDecisionNodeId(ReconcileSource, "f"), "node", <<50, 50>>,
                 NodeData(<<"f">>, <<>>))>>}

ReconcileInit ==
    /\ \E fs \in ReconcileFunctionLists, others \in ReconcileOthers :
          nodes = <<Node(ReconcileSource, "initial", <<0, 0>>,
                         NodeData(ReconcileSource, fs))>> \o others
    /\ edges = <<>> /\ undoManager = Undef
    /\ skipUndoPush = FALSE /\ nodesDirty = TRUE /\ edgesDirty = FALSE
    /\ pushTimer = FALSE /\ edits = 0 /\ last = NoStep
    /\ doc = Undef /\ errs = Undef /\ rf = Undef /\ out = Undef /\ back = Undef
    /\ pushes = Undef /\ result = Undef /\ pc = "reconcile"
    /\ load = Undef /\ toolbar = Undef /\ inspector = Undef /\ props = Undef
    /\ run = [passes |-> 0]

ReconcileFrame ==
    UNCHANGED <<edges, undoManager, skipUndoPush, edgesDirty, pushTimer, edits,
                doc, errs, rf, out, back, pushes, result, pc, load, toolbar,
                inspector, props>>

\* the effect runs on fresh nodes and calls setNodes: the updater returns a new
\* array, so the component renders again and the effect runs again
ReconcilePass ==
    /\ pc = "reconcile" /\ nodesDirty
    /\ NeedsReconcile(nodes)
    /\ nodes' = ReconcileUpdater(nodes, nodes)
    /\ nodesDirty' = TRUE
    /\ run' = [passes |-> IF run.passes < MaxPasses THEN run.passes + 1 ELSE run.passes]
    /\ last' = [op |-> "reconcile", before |-> nodes]
    /\ ReconcileFrame

\* the effect runs on fresh nodes and finds nothing to do: no setNodes
ReconcileIdle ==
    /\ pc = "reconcile" /\ nodesDirty
    /\ ~NeedsReconcile(nodes)
    /\ nodesDirty' = FALSE
    /\ last' = [op |-> "idle", before |-> nodes]
    /\ UNCHANGED <<nodes, run>>
    /\ ReconcileFrame

ReconcileNext == ReconcilePass \/ ReconcileIdle

\* React runs the effect after every render that saw new nodes
SpecReconcile ==
    ReconcileInit /\ [][ReconcileNext]_vars /\ WF_vars(ReconcileNext)

\* C22: from any node set the reconciliation effect eventually runs without
\* calling setNodes, and from then on the nodes stay as they are
C22_ReconciliationSettles ==
    <>[](pc = "reconcile" => ~nodesDirty /\ ~NeedsReconcile(nodes))

\* the effect has called setNodes MaxPasses times and would call it again
C22_StillReconciling ==
    /\ pc = "reconcile"
    /\ run.passes = MaxPasses
    /\ nodesDirty /\ NeedsReconcile(nodes)

\* the five projected fields of a synthetic node equal those of a projection
SameProjection(n, newData) ==
    /\ n.data.label = newData.label
    /\ n.data.action = newData.action
    /\ n.data.conditionCount = newData.conditionCount
    /\ n.data.sourceNodeId = newData.sourceNodeId
    /\ n.data.functionName = newData.functionName

\* the projections of the functions owning the synthetic node n that differ
\* from what n shows
StaleProjections(nds, n) ==
    {PairData(p).data : p \in {q \in Range(DecisionPairs(nds)) :
                                  /\ PairId(q) = n.id
                                  /\ ~SameProjection(n, PairData(q).data)}}

\* C24: a pass that calls setNodes gives every owned synthetic node that shows
\* a stale projection the fresh projection of an owning function as its data,
\* at the same place in the list and with the same id, type and position; an
\* owned synthetic node showing the projection of each owner stays as it is
C24_UpdateKeepsPositionAndId ==
    [][ReconcilePass =>
        \A i \in DOMAIN nodes :
            (IsDecisionNode(nodes[i]) /\ nodes[i].id \in validDecisionIds(nodes)) =>
                /\ i \in DOMAIN nodes'
                /\ IF StaleProjections(nodes, nodes[i]) # {}
                   THEN /\ nodes'[i].data \in StaleProjections(nodes, nodes[i])
                        /\ nodes'[i].id = nodes[i].id
                        /\ nodes'[i].type = nodes[i].type
                        /\ nodes'[i].position = nodes[i].position
                   ELSE nodes'[i] = nodes[i]]_vars

\* a pass has replaced the stale data of a synthetic node that the user had
\* moved away from the projected position, and the node is where it was
C24_StaleMovedNodeUpdated ==
    /\ pc = "reconcile" /\ last.op = "reconcile"
    /\ \E i \in DOMAIN last.before :
          LET n == last.before[i]
          IN  /\ IsDecisionNode(n)
              /\ Cardinality(StaleProjections(last.before, n)) = 1
              /\ \A d \in StaleProjections(last.before, n) : nodes[i].data = d
              /\ n.position # <<200, 0>>
              /\ nodes[i].position = n.position

(***************************************************************************)
(* Dragging nodes on the canvas                                            *)
(***************************************************************************)

\* position changes handed to the canvas in one run
MaxDrags == 2

DragPositions == {<<10, 10>>, <<300, 40>>}

\* one or two functions with different names on node a, none or one on node b
DragFunctionLists ==
    {fs \in ReconcileFunctionLists :
        Len(fs) = 2 => fs[1].name # fs[2].name}

DragGraphs ==
    {useDecisionNodes(
        <<Node(<<"a">>, "initial", <<0, 0>>, NodeData(<<"a">>, fs)),
          Node(<<"b">>, "node", <<0, 100>>, NodeData(<<"b">>, gs))>>) :
        fs \in DragFunctionLists,
        gs \in {<<>>, <<Function("f", Undef, <<Decision("x", <<>>, EmptyId, Undef)>>)>>}}

extractDecisionNodeFromChange(id, position, nds) ==
    IF ~HasNode(nds, id) THEN Null
    ELSE LET node == FindNode(nds, id)
             parsed == parseDecisionNodeId(node.id)
         IN  IF node.type # "decision" \/ parsed = Undef THEN Null
             ELSE [sourceNodeId |-> parsed.sourceNodeId,
                   functionName |-> parsed.functionName,
                   position |-> position]

\* React Flow's own handler: the node takes the position of the change
onNodesChangeBase(id, position, nds) ==
    [i \in DOMAIN nds |->
        IF nds[i].id = id THEN [nds[i] EXCEPT !.position = position] ELSE nds[i]]

\* the updater run at the end of a drag
WriteBackPosition(id, position, currentNodes) ==
    LET decisionInfo == extractDecisionNodeFromChange(id, position, currentNodes)
    IN  IF decisionInfo = Null THEN currentNodes
        ELSE LET sourceNodeIndex ==
                     FindIndex(currentNodes, LAMBDA n : n.id = decisionInfo.sourceNodeId)
             IN  IF sourceNodeIndex = 0 THEN currentNodes
                 ELSE LET functions == currentNodes[sourceNodeIndex].data.functions
                          functionIndex ==
                              FindIndex(functions,
                                  LAMBDA f : f.name = decisionInfo.functionName
                                             /\ HasDecision(f))
                      IN  IF functionIndex = 0 THEN currentNodes
                          ELSE [currentNodes EXCEPT
                                  ![sourceNodeIndex].data.functions[functionIndex]
                                      .decision[1].decision_node_position =
                                          decisionInfo.position]

DragInit ==
    /\ nodes \in DragGraphs
    /\ edges = <<>> /\ undoManager = Undef
    /\ skipUndoPush = FALSE /\ nodesDirty = FALSE /\ edgesDirty = FALSE
    /\ pushTimer = FALSE /\ edits = 0 /\ last = NoStep
    /\ doc = Undef /\ errs = Undef /\ rf = Undef /\ out = Undef /\ back = Undef
    /\ pushes = Undef /\ result = Undef /\ pc = "drag"
    /\ load = Undef /\ toolbar = Undef /\ inspector = Undef /\ props = Undef
    /\ run = [drags |-> 0]

DragFrame ==
    UNCHANGED <<edges, undoManager, skipUndoPush, edgesDirty, pushTimer, edits,
                doc, errs, rf, out, back, pushes, result, pc, load, toolbar,
                inspector, props>>

Dragged(id, position, dragging, after) ==
    /\ pc = "drag" /\ run.drags < MaxDrags
    /\ nodes' = after
    /\ nodesDirty' = TRUE
    /\ run' = [drags |-> run.drags + 1]
    /\ last' = [op |-> "drag", id |-> id, position |-> position,
                dragging |-> dragging, before |-> nodes]
    /\ DragFrame

\* the handler that leaves the function data alone
onNodesChangeBaseOnly(id, position, dragging) ==
    Dragged(id, position, dragging, onNodesChangeBase(id, position, nodes))

\* one position change of one node, while dragging or at the end of the drag
onNodesChange(id, position, dragging) ==
    Dragged(id, position, dragging,
            IF dragging THEN onNodesChangeBase(id, position, nodes)
            ELSE WriteBackPosition(id, position,
                                   onNodesChangeBase(id, position, nodes)))

DragIds ==
    {<<"a">>, <<"b">>} \cup
    {generateDecisionNodeId(n, f) : n \in {<<"a">>, <<"b">>}, f \in {"f", "g"}}

DragNext ==
    \E id \in DragIds, position \in DragPositions, dragging \in BOOLEAN :
        HasNode(nodes, id) /\ onNodesChange(id, position, dragging)

SpecDrag == DragInit /\ [][DragNext]_vars

\* the nodes before the change with the position of node id replaced and,
\* when owner names a function, the stored decision position of that function
ExpectedAfterDrag(before, id, position, owner) ==
    [i \in DOMAIN before |->
        LET moved == IF before[i].id = id
                     THEN [before[i] EXCEPT !.position = position] ELSE before[i]
        IN  IF owner # Null /\ before[i].id = owner.sourceNodeId
            THEN [moved EXCEPT !.data.functions =
                    [k \in DOMAIN @ |->
                        IF @[k].name = owner.functionName /\ HasDecision(@[k])
                        THEN [@[k] EXCEPT !.decision[1].decision_node_position = position]
                        ELSE @[k]]]
            ELSE moved]

\* the function a synthetic node points back to, Null for the other nodes
OwnerOf(n) ==
    IF n.type = "decision"
    THEN [sourceNodeId |-> n.data.sourceNodeId, functionName |-> n.data.functionName]
    ELSE Null

-----------------------------------------------------------------------------
(* Creation of a decision in the inspector *)

\* C25: right after the Decision toggle has created a decision on a function,
\* next_node_id and decision.default_next_node_id of that function hold the
\* same value, the action is empty and there are no conditions
C25_CreationAlignsTargets ==
    [][\A id \in RegularIds, index \in 1..MaxFunctions :
          createDecision(id, index) =>
              LET func == FindNode(nodes', id).data.functions[index]
              IN  /\ HasDecision(func)
                  /\ func.next_node_id = DecisionOf(func).default_next_node_id
                  /\ DecisionOf(func).action = ""
                  /\ DecisionOf(func).conditions = <<>>]_vars

\* a decision was created on a function without a next node: the default is
\* the empty string and next_node_id is still undefined
C25_DefaultEmptyNextUndefined ==
    /\ pc = "editor" /\ last.op = "createDecision"
    /\ \E k \in DOMAIN FindNode(last.pre, last.id).data.functions :
          LET before == FindNode(last.pre, last.id).data.functions[k]
              func == FindNode(nodes, last.id).data.functions[k]
          IN  /\ ~HasDecision(before) /\ before.next_node_id = Undef
              /\ HasDecision(func)
              /\ func.next_node_id = Undef
              /\ DecisionOf(func).default_next_node_id = EmptyId

(***************************************************************************)
(* Functions form: the properties of a function and its required list      *)
(***************************************************************************)

\* handlers run on the form in one run
MaxFormEdits == 2

PropertyNames == {"p", "q", "r"}

\* lists without repetition over a set of names
DistinctLists(names) ==
    {s \in UNION {[1..n -> names] : n \in 0..Cardinality(names)} :
        \A i, j \in DOMAIN s : i # j => s[i] # s[j]}

\* Object.entries of the properties: keys in insertion order with their types;
\* an absent map and an empty one are both the empty list
PropertyMaps ==
    {[i \in DOMAIN keys |-> [key |-> keys[i], type |-> IF keys[i] = "p" THEN "integer" ELSE "string"]] :
        keys \in DistinctLists(PropertyNames)}

Keys(properties) == {properties[i].key : i \in DOMAIN properties}

\* {...item, ...updates}
Merge(item, updates) ==
    [k \in DOMAIN item \cup DOMAIN updates |->
        IF k \in DOMAIN updates THEN updates[k] ELSE item[k]]

\* FunctionsForm.updateItem: the list handed to onChange, built from the items
\* of the render the handler belongs to
NextItems(items, index, updates) ==
    [items EXCEPT ![index] = Merge(@, updates)]

\* the lists a handler hands to onChange one after the other are applied by
\* the parent as whole-list replacements: the last one stands
Applied(functions, calls) ==
    IF calls = <<>> THEN functions ELSE calls[Len(calls)]

FormInit ==
    /\ nodes = <<>> /\ edges = <<>> /\ undoManager = Undef
    /\ skipUndoPush = FALSE /\ nodesDirty = FALSE /\ edgesDirty = FALSE
    /\ pushTimer = FALSE /\ edits = 0 /\ last = NoStep
    /\ doc = Undef /\ errs = Undef /\ rf = Undef /\ out = Undef /\ back = Undef
    /\ pushes = Undef /\ result = Undef /\ pc = "form"
    /\ load = Undef /\ toolbar = Undef /\ inspector = Undef /\ props = Undef
    /\ \E properties \in PropertyMaps :
          \E required \in DistinctLists(Keys(properties)) :
              run = [functions |->
                        <<[name |-> "f", properties |-> properties, required |-> required],
                          [name |-> "g", properties |-> <<>>, required |-> <<>>]>>,
                     edits |-> 0]

\* a handler of the first function item issues its onChange calls; the parent
\* applies them and the form renders again
FormHandler(calls, step) ==
    /\ pc = "form" /\ run.edits < MaxFormEdits
    /\ run' = [functions |-> Applied(run.functions, calls), edits |-> run.edits + 1]
    /\ last' = Merge(step, [calls |-> Len(calls), before |-> run.functions[1]])
    /\ UNCHANGED <<nodes, edges, undoManager, skipUndoPush, nodesDirty, edgesDirty,
                   pushTimer, edits, doc, errs, rf, out, back, pushes, result, pc,
                   load, toolbar, inspector, props>>

\* the checkbox of a property
updateRequired(propName, isRequired) ==
    LET items == run.functions
        required == items[1].required
        newRequired == IF isRequired
                       THEN Append(SelectSeq(required, LAMBDA r : r # propName), propName)
                       ELSE SelectSeq(required, LAMBDA r : r # propName)
    IN  FormHandler(<<NextItems(items, 1, [required |-> newRequired])>>,
                    [op |-> "updateRequired", propName |-> propName])

removeProperty(propName) ==
    LET items == run.functions
        properties == items[1].properties
        required == items[1].required
        newProperties == SelectSeq(properties, LAMBDA e : e.key # propName)
        first == NextItems(items, 1, [properties |-> newProperties])
        second == NextItems(items, 1,
                      [required |-> SelectSeq(required, LAMBDA r : r # propName)])
    IN  /\ propName \in Keys(properties)
        /\ FormHandler(IF propName \in Range(required)
                       THEN <<first, second>> ELSE <<first>>,
                       [op |-> "removeProperty", propName |-> propName])

renameProperty(oldName, newName) ==
    LET items == run.functions
        properties == items[1].properties
        required == items[1].required
        newProperties == [i \in DOMAIN properties |->
                             IF properties[i].key = oldName
                             THEN [properties[i] EXCEPT !.key = newName]
                             ELSE properties[i]]
        first == NextItems(items, 1, [properties |-> newProperties])
        second == NextItems(items, 1,
                      [required |-> Append(SelectSeq(required, LAMBDA r : r # oldName),
                                           newName)])
    IN  /\ oldName \in Keys(properties)
        /\ oldName # newName
        /\ newName \notin Keys(properties)
        /\ FormHandler(IF oldName \in Range(required)
                       THEN <<first, second>> ELSE <<first>>,
                       [op |-> "renameProperty", propName |-> oldName,
                        newName |-> newName])

FormNext ==
    \/ \E propName \in PropertyNames, isRequired \in BOOLEAN :
          propName \in Keys(run.functions[1].properties)
          /\ updateRequired(propName, isRequired)
    \/ \E propName \in PropertyNames : removeProperty(propName)
    \/ \E oldName \in PropertyNames, newName \in PropertyNames :
          renameProperty(oldName, newName)

SpecForm == FormInit /\ [][FormNext]_vars

\* C26: after a required property was removed or renamed and the parent has
\* applied both onChange calls, the old name is in neither the properties nor
\* the required list, the new name of a renamed property is in both, and the
\* required names that were keys of the properties before are still keys
C26_BothChangesApplied ==
    (pc = "form" /\ last.op \in {"removeProperty", "renameProperty"}
     /\ last.propName \in Range(last.before.required)) =>
        LET func == run.functions[1]
        IN  /\ last.calls = 2
            /\ last.propName \notin Keys(func.properties)
            /\ last.propName \notin Range(func.required)
            /\ last.op = "renameProperty" =>
                  /\ last.newName \in Keys(func.properties)
                  /\ last.newName \in Range(func.required)
            /\ Range(last.before.required) \subseteq Keys(last.before.properties) =>
                  Range(func.required) \subseteq Keys(func.properties)

\* a required property was removed with two onChange calls: it is gone from
\* the required list and still among the properties
C26_RemovedPropertyStillThere ==
    /\ pc = "form" /\ last.op = "removeProperty" /\ last.calls = 2
    /\ last.propName \in Keys(run.functions[1].properties)
    /\ last.propName \notin Range(run.functions[1].required)

(***************************************************************************)
(* Undo history in the editor: the Toolbar's flags, New Flow, remote load  *)
(***************************************************************************)

\* the canUndo / canRedo props of the Toolbar, read from the ref while rendering
ToolbarProps(um) == [canUndo |-> canUndo(um), canRedo |-> canRedo(um)]

\* the editor is mounted on a route; the first render has run its effects and
\* the fetch of the route's flow is pending
HistoryInit ==
    /\ nodes = InitialGraph.nodes
    /\ edges = InitialGraph.edges
    /\ undoManager = NewUndoManager(Snapshot(InitialGraph.nodes, InitialGraph.edges))
    /\ skipUndoPush = FALSE /\ nodesDirty = FALSE /\ edgesDirty = FALSE
    /\ pushTimer = TRUE /\ edits = 0 /\ last = NoStep
    /\ doc = Undef /\ errs = Undef /\ rf = Undef /\ out = Undef /\ back = Undef
    /\ pushes = Undef /\ result = Undef /\ pc = "history"
    /\ toolbar = Undef /\ inspector = Undef
    /\ props = ToolbarProps(undoManager)
    /\ run = [closure |-> Snapshot(InitialGraph.nodes, InitialGraph.edges)]
    /\ load = [pathname |-> "support",
               hasLoadedFromApi |-> FALSE,
               fetches |-> <<[route |-> "support", issuedAt |-> 0, state |-> "pending"]>>,
               timer |-> FALSE,
               saved |-> Null,
               loads |-> 0,
               holds |-> "none"]

\* one render of the editor: the Toolbar gets the flags of the manager as it is
\* now, the effects run, and the timer armed by the undo effect keeps the
\* nodes and edges of this render
Render ==
    /\ RunEffects
    /\ props' = ToolbarProps(undoManager)
    /\ run' = IF skipUndoPush THEN run ELSE [closure |-> Snapshot(nodes, edges)]
    /\ UNCHANGED <<undoManager, edits, last, doc, errs, rf, out, back, pushes, result,
                   pc, load, toolbar, inspector>>

\* setNodes and setEdges get the memoized arrays of the initial graph: React
\* renders only if the state holds other arrays, which it does once a handler
\* has replaced them
onNewFlow ==
    /\ UserEvent
    /\ skipUndoPush' = TRUE
    /\ undoManager' = NewUndoManager(Snapshot(InitialGraph.nodes, InitialGraph.edges))
    /\ SetGraph(InitialGraph.nodes, InitialGraph.edges,
                last.op \notin {"none", "newFlow"}, edges # InitialGraph.edges,
                [op |-> "newFlow", pre |-> nodes])

\* the 200 ms timer fires after the response has replaced the manager and
\* before React has rendered the loaded graph and cleaned the timer up: the
\* loaded graph is set outside an event handler, so its render is a later task
EarlyPushTimeout ==
    /\ pushTimer
    /\ ~Quiescent
    /\ last.op = "response" /\ last.loaded
    /\ pushTimer' = FALSE
    /\ undoManager' = Push(undoManager, run.closure)
    /\ UNCHANGED <<nodes, edges, skipUndoPush, nodesDirty, edgesDirty, edits, last,
                   PureVars>>

HistoryNext ==
    \/ \E id \in RegularIds : addItem(id)
    \/ \E type \in {"node", "end"}, position \in DropPositions : OnDrop(type, position)
    \/ onUndo
    \/ onRedo
    \/ onNewFlow
    \/ \E response \in Responses("support") :
          Quiescent /\ fetchFlowsPrompt(1, response)
    \/ Render
    \/ PushTimeout
    \/ EarlyPushTimeout

SpecHistory == HistoryInit /\ [][HistoryNext]_vars

\* nothing is pending: no render and no push timer
Settled == Quiescent /\ ~pushTimer

\* C27: once the editor has settled after a user edit, the edited graph is the
\* top of the undo history, whatever Undo, Redo or New Flow came before it
C27_EditsArePushed ==
    (pc = "history" /\ Settled /\ last.op \in {"addItem", "drop"}) =>
        Top(undoManager) = Snapshot(nodes, edges)

\* New Flow was chosen on the initial graph, then the graph was edited and
\* the editor has settled: the history still holds the initial graph only
C27_EditAfterNewFlowNotPushed ==
    /\ pc = "history" /\ Settled
    /\ last.op \in {"addItem", "drop"}
    /\ last.pre = InitialGraph.nodes
    /\ nodes # InitialGraph.nodes
    /\ undoManager = NewUndoManager(Snapshot(InitialGraph.nodes, InitialGraph.edges))

\* C28: when the editor has settled, the flags the Toolbar was rendered with
\* are those of the undo manager
C28_ToolbarFlagsCurrent ==
    (pc = "history" /\ Settled) => props = ToolbarProps(undoManager)

\* the first edit has been pushed, undo() would return the initial graph, and
\* the Undo button is still disabled
C28_UndoButtonStaysDisabled ==
    /\ pc = "history" /\ Settled
    /\ edits = 1 /\ last.op \in {"addItem", "drop"}
    /\ canUndo(undoManager)
    /\ ~props.canUndo

\* C29: from New Flow or a successful remote load until the next user edit the
\* undo history holds the new graph only, so that undo() returns null
C29_HistoryStartsAfresh ==
    (pc = "history" /\ (last.op = "newFlow" \/ (last.op = "response" /\ last.loaded))) =>
        /\ UndoResult(undoManager) = Null
        /\ undoManager.stack = <<Snapshot(useDecisionNodes(nodes),
                                          deriveEdgesFromNodes(nodes))>>

\* after the remote load undo() returns the graph the response replaced
C29_OldGraphInNewHistory ==
    /\ pc = "history" /\ Settled
    /\ last.op = "response" /\ last.loaded
    /\ UndoResult(undoManager) # Null
    /\ \E i \in DOMAIN undoManager.stack : undoManager.stack[i].nodes = last.pre

(***************************************************************************)
(* Duplicating nodes                                                       *)
(***************************************************************************)

\* copies made in one run
MaxDuplicates == 2

\* the functions of the node that is copied: none, a self-loop, a plain link,
\* or a decision with one condition
DuplicateFunctionLists ==
    {<<>>,
     <<Function("again", <<"node">>, Undef)>>,
     <<Function("done", <<"end">>, Undef), Function("idle", Undef, Undef)>>,
     <<Function("route", <<"end">>,
                <<Decision("x", <<Condition("==", "1", <<"end">>)>>, <<"node">>,
                           <<300, 0>>)>>)>>}

\* nodes that may stand next to it: a copy made earlier, a node whose id is
\* the slug of the next copy's label, and an end node
DuplicateOthers ==
    <<Node(<<"node", "copy">>, "node", <<100, 20>>, NodeData(<<"Node", "copy">>, <<>>)),
      Node(<<"node", "copy", "2">>, "node", <<0, 200>>, NodeData(<<"Other">>, <<>>)),
      Node(<<"end">>, "end", <<0, 300>>, NodeData(<<"End">>, <<>>))>>

RECURSIVE Sublist(_, _)
Sublist(s, keep) ==
    IF s = <<>> THEN <<>>
    ELSE (IF Len(s) \in keep THEN <<s[Len(s)]>> ELSE <<>>)
         \o Sublist(SubSeq(s, 1, Len(s) - 1), keep)

DuplicateInit ==
    /\ \E fs \in DuplicateFunctionLists, keep \in SUBSET (1..3) :
          nodes = <<Node(<<"node">>, "node", <<0, 0>>, NodeData(<<"Node">>, fs))>>
                  \o Sublist(DuplicateOthers, keep)
    /\ edges = <<>> /\ undoManager = Undef
    /\ skipUndoPush = FALSE /\ nodesDirty = FALSE /\ edgesDirty = FALSE
    /\ pushTimer = FALSE /\ edits = 0 /\ last = NoStep
    /\ doc = Undef /\ errs = Undef /\ rf = Undef /\ out = Undef /\ back = Undef
    /\ pushes = Undef /\ result = Undef /\ pc = "duplicate"
    /\ load = Undef /\ toolbar = Undef /\ inspector = Undef /\ props = Undef
    /\ run = [copies |-> 0]

\* Duplicate in the context menu of node i: the copy is appended
DuplicateFromMenu(i) ==
    /\ pc = "duplicate" /\ run.copies < MaxDuplicates
    /\ i \in DOMAIN nodes
    /\ ~IsDecisionNode(nodes[i])
    /\ LET duplicatedNode == duplicateNode(nodes[i], nodes)
       IN  /\ nodes' = Append(nodes, duplicatedNode)
           /\ last' = [op |-> "duplicate", id |-> duplicatedNode.id,
                       source |-> nodes[i], pre |-> nodes]
    /\ nodesDirty' = TRUE
    /\ run' = [copies |-> run.copies + 1]
    /\ UNCHANGED <<edges, undoManager, skipUndoPush, edgesDirty, pushTimer, edits,
                   doc, errs, rf, out, back, pushes, result, pc, load, toolbar,
                   inspector, props>>

DuplicateNext == \E i \in 1..(4 + MaxDuplicates) : DuplicateFromMenu(i)

SpecDuplicate == DuplicateInit /\ [][DuplicateNext]_vars

\* every target a function routes to, in order
RoutingTargets(data) ==
    Flatten([j \in DOMAIN data.functions |->
        LET func == data.functions[j]
        IN  <<func.next_node_id>> \o
            (IF HasDecision(func)
             THEN [k \in DOMAIN DecisionOf(func).conditions |->
                      DecisionOf(func).conditions[k].next_node_id]
                  \o <<DecisionOf(func).default_next_node_id>>
             ELSE <<>>)])

====
